---- MODULE Spec2Model ----
(***************************************************************************)
(* A model of the news recommendation backend (backend/services,           *)
(* backend/models, backend/routes).                                         *)
(*                                                                          *)
(* Numbers.  The program computes with floats; the model computes with     *)
(* exact decimals scaled to integers.  A boost or a base score x is held   *)
(* as the integer x * Unit; a weighted score s is held as s * 100 * Unit   *)
(* (the weights 0.6, 0.2, 0.1, 0.05, 0.05 are held in hundredths).         *)
(*                                                                          *)
(* Text.  A title is a sequence of characters, so that lower() and strip() *)
(* are computed, not assumed.                                               *)
(*                                                                          *)
(* Time.  Instants are whole minutes since an arbitrary origin.            *)
(***************************************************************************)
EXTENDS Integers, Sequences, FiniteSets, TLC

VARIABLES
    now,            \* datetime.utcnow(), in minutes
    news_articles,  \* table news_articles: the set of stored rows, keyed by id
    user_interactions, \* table user_interactions: append-only sequence of rows
    resp,           \* the last request served and its response
    dd_articles,    \* NewsService._remove_duplicates: the argument
    dd_result,      \* NewsService._remove_duplicates: the value returned
    bo_args,        \* a booster function's arguments
    bo_result,      \* a booster function's value
    calls,          \* the ranking calls in flight: user -> the call and where it is
    frame,          \* the working values of the calls in flight
    LIVE_NEWS_CACHE, \* simple_backend: the articles of the last fetch that got any
    CACHE_TIMESTAMP, \* simple_backend: <<utcnow()>> at that fetch, <<>> (None) before it
    SAMPLE_NEWS     \* simple_backend: the built-in articles

vars == <<now, news_articles, user_interactions, resp,
          dd_articles, dd_result, bo_args, bo_result,
          calls, frame, LIVE_NEWS_CACHE, CACHE_TIMESTAMP, SAMPLE_NEWS>>

svc_vars == <<now, news_articles, user_interactions, resp>>
dd_vars == <<dd_articles, dd_result>>
bo_vars == <<bo_args, bo_result>>
cc_vars == <<calls, frame>>
sb_vars == <<LIVE_NEWS_CACHE, CACHE_TIMESTAMP, SAMPLE_NEWS>>

None == "None"      \* Python's None, and a key absent from a dict

----------------------------------------------------------------------------
(* Sequences *)

Min(a, b) == IF a <= b THEN a ELSE b
Max(a, b) == IF a >= b THEN a ELSE b

\* Python's s[:k] for k >= 0
Take(s, k) == SubSeq(s, 1, Min(Len(s), k))

Range(s) == {s[i] : i \in DOMAIN s}

\* all sequences over S of length 0..n
SeqsUpTo(S, n) == UNION {[1..k -> S] : k \in 0..n}

\* the sequences that arrange the set S without repetition
Perms(S) == {p \in [1..Cardinality(S) -> S] : Range(p) = S}

\* dict.get(k, default): a record is a dict, a field it lacks an absent key
Get(d, k, default) == IF k \in DOMAIN d THEN d[k] ELSE default

RECURSIVE Count(_, _, _)
\* sum(1 for rec in s if rec.get(f) == v)
Count(s, f, v) ==
    IF s = <<>> THEN 0
    ELSE (IF Get(s[1], f, None) = v THEN 1 ELSE 0) + Count(Tail(s), f, v)

----------------------------------------------------------------------------
(* Text: str.lower() and str.strip() on titles *)

Chars == {"A", "a", "B", "b", " "}

Lower(c) == CASE c = "A" -> "a" [] c = "B" -> "b" [] OTHER -> c

StrLower(s) == [i \in DOMAIN s |-> Lower(s[i])]

RECURSIVE LStrip(_)
LStrip(s) == IF s # <<>> /\ s[1] = " " THEN LStrip(Tail(s)) ELSE s

RECURSIVE RStrip(_)
RStrip(s) ==
    IF s # <<>> /\ s[Len(s)] = " " THEN RStrip(SubSeq(s, 1, Len(s) - 1)) ELSE s

StrStrip(s) == RStrip(LStrip(s))

\* article["title"].lower().strip()
NormTitle(title) == StrStrip(StrLower(title))

----------------------------------------------------------------------------
(* NewsService._remove_duplicates *)

RECURSIVE RemoveLoop(_, _, _)
\* the for loop: articles still to visit, seen_titles, unique_articles
RemoveLoop(articles, seen_titles, unique_articles) ==
    IF articles = <<>> THEN unique_articles
    ELSE LET article == articles[1]
             title_lower == NormTitle(article.title)
         IN  IF title_lower \notin seen_titles
             THEN RemoveLoop(Tail(articles), seen_titles \cup {title_lower},
                             Append(unique_articles, article))
             ELSE RemoveLoop(Tail(articles), seen_titles, unique_articles)

\* a plausible slip: a duplicate replaces the article kept for its title
RECURSIVE RemoveLoopKeepLast(_, _, _)
RemoveLoopKeepLast(articles, seen_titles, unique_articles) ==
    IF articles = <<>> THEN unique_articles
    ELSE LET article == articles[1]
             title_lower == NormTitle(article.title)
         IN  IF title_lower \notin seen_titles
             THEN RemoveLoopKeepLast(Tail(articles), seen_titles \cup {title_lower},
                                     Append(unique_articles, article))
             ELSE RemoveLoopKeepLast(Tail(articles), seen_titles,
                     [i \in DOMAIN unique_articles |->
                        IF NormTitle(unique_articles[i].title) = title_lower
                        THEN article ELSE unique_articles[i]])

mut_remove_duplicates(articles) == RemoveLoopKeepLast(articles, {}, <<>>)

_remove_duplicates(articles) == RemoveLoop(articles, {}, <<>>)

----------------------------------------------------------------------------
(* Bounds of the model *)

MaxDedupLen == 3        \* longest argument of _remove_duplicates explored
MaxAccepted == 6        \* longest accepted list handed to the diversity penalty
MaxInteractions == 2    \* rows the table user_interactions may hold
MaxCounted == 3         \* interactions counted for a profile built on its own

----------------------------------------------------------------------------
(* Exact decimals *)

RECURSIVE Gcd(_, _)
Gcd(a, b) == IF b = 0 THEN a ELSE Gcd(b, a % b)

RECURSIVE LcmUpTo(_)
LcmUpTo(n) == IF n <= 1 THEN 1 ELSE LET l == LcmUpTo(n - 1) IN (l * n) \div Gcd(l, n)

\* 1.0 as held by the model: every count/total the profile can divide is whole
Unit == 100 * LcmUpTo(Max(MaxInteractions, MaxCounted))

Tenths(k) == (k * Unit) \div 10
Hundredths(k) == (k * Unit) \div 100

----------------------------------------------------------------------------
(* published_at values.  kind is the shape of the string:                  *)
(*   "naive"   2024-01-01T10:00:00          (RSS, utcnow().isoformat())    *)
(*   "Z"       2024-01-01T10:00:00Z         (NewsAPI, GNews)               *)
(*   "offset"  2024-01-01T10:00:00+00:00                                   *)
(*   "bad"     a string that is no ISO timestamp, '' included              *)
(*   "none"    None                                                        *)
(* and t is the instant it names (0 when it names none).                   *)

Stamp(kind, t) == [kind |-> kind, t |-> t]
NoStamp == Stamp("none", 0)
BadStamp == Stamp("bad", 0)

\* published_at.replace('Z', '+00:00')
ReplaceZ(p) == IF p.kind = "Z" THEN Stamp("offset", p.t) ELSE p

\* a plausible slip: the step up to 72 hours left out
mut_HoursToRecency(minutes_old) ==
    IF minutes_old <= 60 THEN Tenths(10)
    ELSE IF minutes_old <= 360 THEN Tenths(8)
    ELSE IF minutes_old <= 4320 THEN Tenths(6)
    ELSE Tenths(2)

\* the steps on hours_old, the age being held in minutes
HoursToRecency(minutes_old) ==
    IF minutes_old <= 60 THEN Tenths(10)
    ELSE IF minutes_old <= 360 THEN Tenths(8)
    ELSE IF minutes_old <= 1440 THEN Tenths(6)
    ELSE IF minutes_old <= 4320 THEN Tenths(4)
    ELSE Tenths(2)

\* RecommendationService._calculate_recency_boost; `utcnow` is datetime.utcnow()
_calculate_recency_boost(published_at, utcnow) ==
    IF published_at.kind = "none" THEN Tenths(5)          \* AttributeError
    ELSE LET s == ReplaceZ(published_at) IN
         IF s.kind = "bad" THEN Tenths(5)                 \* ValueError
         ELSE IF s.kind = "offset" THEN Tenths(5)         \* naive - aware: TypeError
         ELSE HoursToRecency(utcnow - s.t)

----------------------------------------------------------------------------
(* RecommendationService._calculate_diversity_penalty *)

\* a plausible slip: the floor left out
mut_calculate_diversity_penalty(article, existing_recommendations) ==
    IF existing_recommendations = <<>> THEN Unit
    ELSE LET c == Count(existing_recommendations, "category",
                        Get(article, "category", ""))
             s == Count(existing_recommendations, "source", Get(article, "source", ""))
         IN  Min(Unit - c * Tenths(1), Unit - s * Hundredths(15))

_calculate_diversity_penalty(article, existing_recommendations) ==
    IF existing_recommendations = <<>> THEN Unit
    ELSE LET article_category == Get(article, "category", "")
             article_source == Get(article, "source", "")
             similar_category_count ==
                 Count(existing_recommendations, "category", article_category)
             similar_source_count ==
                 Count(existing_recommendations, "source", article_source)
             category_penalty == Max(Hundredths(50), Unit - similar_category_count * Tenths(1))
             source_penalty == Max(Hundredths(50), Unit - similar_source_count * Hundredths(15))
         IN  Min(category_penalty, source_penalty)

----------------------------------------------------------------------------
(* Articles *)

\* NewsService.generate_article_id: md5 of f"{title}_{source}_{published_at}",
\* held as the triple that is hashed (md5 taken to be injective)
generate_article_id(title, source, published_at) == <<title, source, published_at>>

Article(title, source, category, id_stamp, published_at) ==
    [id |-> generate_article_id(title, source, id_stamp),
     title |-> title, source |-> source, category |-> category,
     published_at |-> published_at]

----------------------------------------------------------------------------
(* Values the idle parts of the state hold *)

NoCall == [done |-> FALSE]
NoResp == [op |-> "none"]

ServiceIdle ==
    /\ now = 0
    /\ news_articles = {}
    /\ user_interactions = <<>>
    /\ resp = NoResp

DedupIdle == dd_articles = <<>> /\ dd_result = NoCall
BoostIdle == bo_args = [fn |-> "none"] /\ bo_result = NoCall
ConcurrentIdle == calls = <<>> /\ frame = <<>>
SimpleIdle == LIVE_NEWS_CACHE = <<>> /\ CACHE_TIMESTAMP = <<>> /\ SAMPLE_NEWS = <<>>

----------------------------------------------------------------------------
(* SpecDedup: _remove_duplicates applied to every short sequence of articles *)

DedupTitles == {<<"A">>, <<"a", " ">>, <<" ", "a">>, <<"B">>, <<"b">>}
DedupSources == {"Reuters", "Blog"}

DedupPool ==
    {Article(t, s, "general", Stamp("naive", 0), Stamp("naive", 0)) :
        t \in DedupTitles, s \in DedupSources}

DedupInit ==
    /\ dd_articles \in SeqsUpTo(DedupPool, MaxDedupLen)
    /\ dd_result = NoCall
    /\ ServiceIdle /\ BoostIdle
    /\ ConcurrentIdle /\ SimpleIdle

DedupCall ==
    /\ ~dd_result.done
    /\ dd_result' = [done |-> TRUE, value |-> _remove_duplicates(dd_articles)]
    /\ UNCHANGED <<dd_articles, svc_vars, bo_vars, cc_vars, sb_vars>>

DedupNext == DedupCall

SpecDedup == DedupInit /\ [][DedupNext]_vars

\* positions of dd_articles that hold the first article of their normalized title
FirstOccurrences ==
    {i \in DOMAIN dd_articles :
        \A j \in 1..(i - 1) :
            NormTitle(dd_articles[j].title) # NormTitle(dd_articles[i].title)}

\* C4: _remove_duplicates returns exactly the subsequence of the first article
\* of each normalized title: the k-th output is the k-th first occurrence, no
\* two outputs share a normalized title, every normalized title of the input
\* appears in the output, and the empty input gives the empty output.
C4_RemoveDuplicatesFirstOccurrences ==
    dd_result.done =>
        LET out == dd_result.value IN
        /\ Len(out) = Cardinality(FirstOccurrences)
        /\ \A i \in FirstOccurrences :
              out[Cardinality({j \in FirstOccurrences : j <= i})] = dd_articles[i]
        /\ \A a, b \in DOMAIN out :
              a # b => NormTitle(out[a].title) # NormTitle(out[b].title)
        /\ {NormTitle(dd_articles[i].title) : i \in DOMAIN dd_articles}
              = {NormTitle(out[i].title) : i \in DOMAIN out}
        /\ (dd_articles = <<>> => out = <<>>)

\* a call that dropped a later article whose raw title differs from the kept
\* one's, and kept two articles
C4_Witness ==
    /\ dd_result.done
    /\ Len(dd_result.value) = 2
    /\ Len(dd_articles) = 3
    /\ \E i, j \in DOMAIN dd_articles :
          /\ i < j
          /\ dd_articles[i].title # dd_articles[j].title
          /\ NormTitle(dd_articles[i].title) = NormTitle(dd_articles[j].title)

----------------------------------------------------------------------------
(* SpecBoost: the recency boost and the diversity penalty on their own *)

\* ages, in minutes, around every step of the recency boost
RecencyAges == {-30, 0, 30, 60, 61, 360, 361, 1440, 1441, 1800, 4320, 4321, 6000}
RecencyKinds == {"naive", "Z", "offset", "bad", "none"}
RecencyNow == 100 * 60

BoostCategories == {"technology", "business"}
BoostSources == {"Reuters", "Blog"}
BoostItems == [category : BoostCategories, source : BoostSources]

BoostInit ==
    /\ \/ \E k \in RecencyKinds, age \in RecencyAges :
            bo_args = [fn |-> "recency", utcnow |-> RecencyNow, age |-> age,
                       published_at |->
                           IF k \in {"bad", "none"} THEN Stamp(k, 0)
                           ELSE Stamp(k, RecencyNow - age)]
       \/ \E a \in BoostItems, e \in SeqsUpTo(BoostItems, MaxAccepted) :
            bo_args = [fn |-> "diversity", article |-> a,
                       existing_recommendations |-> e]
    /\ bo_result = NoCall
    /\ ServiceIdle /\ DedupIdle
    /\ ConcurrentIdle /\ SimpleIdle

RecencyCall ==
    /\ ~bo_result.done
    /\ bo_args.fn = "recency"
    /\ bo_result' = [done |-> TRUE,
                     value |-> _calculate_recency_boost(bo_args.published_at,
                                                        bo_args.utcnow)]
    /\ UNCHANGED <<bo_args, svc_vars, dd_vars, cc_vars, sb_vars>>

DiversityCall ==
    /\ ~bo_result.done
    /\ bo_args.fn = "diversity"
    /\ bo_result' = [done |-> TRUE,
                     value |-> _calculate_diversity_penalty(
                                   bo_args.article, bo_args.existing_recommendations)]
    /\ UNCHANGED <<bo_args, svc_vars, dd_vars, cc_vars, sb_vars>>

BoostNext == RecencyCall \/ DiversityCall

SpecBoost == BoostInit /\ [][BoostNext]_vars

RecencyDone == bo_result.done /\ bo_args.fn = "recency"
DiversityDone == bo_result.done /\ bo_args.fn = "diversity"

\* the accepted results that share the article's category, and its source
SameCategory ==
    {i \in DOMAIN bo_args.existing_recommendations :
        bo_args.existing_recommendations[i].category = bo_args.article.category}
SameSource ==
    {i \in DOMAIN bo_args.existing_recommendations :
        bo_args.existing_recommendations[i].source = bo_args.article.source}

\* C8: the diversity penalty is 1.0 on an empty accepted list, and otherwise
\* min(max(0.5, 1 - 0.1*c), max(0.5, 1 - 0.15*s)); it lies in [0.5, 1.0].
\* (both sides in hundredths of Unit)
C8_DiversityPenalty ==
    DiversityDone =>
        LET c == Cardinality(SameCategory)
            s == Cardinality(SameSource)
            v == bo_result.value * 100
        IN  /\ bo_args.existing_recommendations = <<>> => v = 100 * Unit
            /\ bo_args.existing_recommendations # <<>> =>
                  v = Min(Max(50, 100 - 10 * c), Max(50, 100 - 15 * s)) * Unit
            /\ 50 * Unit <= v /\ v <= 100 * Unit

\* the floor at work: six accepted results share the category (1 - 0.6 < 0.5)
\* and none the source
C8_Witness ==
    /\ DiversityDone
    /\ Cardinality(SameCategory) = 6
    /\ Cardinality(SameSource) = 0
    /\ bo_result.value * 2 = Unit

\* the step function of the claims, on an age in minutes, in tenths
RecencyStep(age) ==
    IF age <= 60 THEN 10
    ELSE IF age <= 360 THEN 8
    ELSE IF age <= 1440 THEN 6
    ELSE IF age <= 4320 THEN 4
    ELSE 2

\* C9 as claimed: every timestamp that names an instant, with or without a
\* 'Z' or UTC-offset suffix, gets the step function of its age, and only a
\* missing or unparseable one gets 0.5.
C9_RecencyStepEveryFormat ==
    RecencyDone =>
        /\ bo_args.published_at.kind \in {"naive", "Z", "offset"} =>
              bo_result.value * 10 = RecencyStep(bo_args.age) * Unit
        /\ bo_result.value * 10 = 5 * Unit =>
              bo_args.published_at.kind \in {"bad", "none"}

----------------------------------------------------------------------------
(* The model collaborator: NewsRecommendationModel.get_personalized_recommendations *)

RECURSIVE InsertDesc(_, _, _)
\* x put into the descending sequence s after every element whose key is not
\* smaller: the place a stable descending sort gives it
InsertDesc(s, x, key) ==
    IF s = <<>> THEN <<x>>
    ELSE IF s[1][key] >= x[key] THEN <<s[1]>> \o InsertDesc(Tail(s), x, key)
    ELSE <<x>> \o s

RECURSIVE InsertDescBeforeTies(_, _, _)
\* a plausible slip: a sort that puts an element before its ties
InsertDescBeforeTies(s, x, key) ==
    IF s = <<>> THEN <<x>>
    ELSE IF s[1][key] > x[key] THEN <<s[1]>> \o InsertDescBeforeTies(Tail(s), x, key)
    ELSE <<x>> \o s

RECURSIVE SortFrom(_, _, _)
SortFrom(sorted, rest, key) ==
    IF rest = <<>> THEN sorted
    ELSE SortFrom(InsertDesc(sorted, rest[1], key), Tail(rest), key)

RECURSIVE SortFromUnstable(_, _, _)
SortFromUnstable(sorted, rest, key) ==
    IF rest = <<>> THEN sorted
    ELSE SortFromUnstable(InsertDescBeforeTies(sorted, rest[1], key), Tail(rest), key)

mut_SortDesc(s, key) == SortFromUnstable(<<>>, s, key)

\* list.sort(key=lambda x: x[key], reverse=True): descending and stable
SortDesc(s, key) == SortFrom(<<>>, s, key)

\* {**article, 'recommendation_score': ...}: a new dict per article
WithScore(article, score) == ("recommendation_score" :> score) @@ article

\* the model's answer when predict() gives scores[i] for news_articles[i]
ml_get_personalized_recommendations(articles, scores, top_k) ==
    LET recommendations == [i \in DOMAIN articles |-> WithScore(articles[i], scores[i])]
    IN  Take(SortDesc(recommendations, "recommendation_score"), top_k)

\* Object identity.  The caller's list news_articles holds the dicts 1..n; the
\* recommendation built for news_articles[i] is the dict ModelRef(n, i).

\* a plausible slip: the model annotates the caller's dict and returns it
mut_ModelRef(n, i) == i

\* recommendation = {**article, ...}: a dict of its own
ModelRef(n, i) == n + i

\* for each recommendation returned, the index of the article it was built for
ScoringOrder(scores, top_k) ==
    LET indexed == [i \in DOMAIN scores |->
                      [article_index |-> i, recommendation_score |-> scores[i]]]
    IN  Take(SortDesc(indexed, "recommendation_score"), top_k)

\* the caller's dicts after the service wrote final_score and
\* personalization_factors into the recommendations: the accepted list ends
\* with what the recommendations of the model have become, in their order
ArticlesAfter(articles, scores, accepted) ==
    LET n == Len(articles)
        order == ScoringOrder(scores, n)
        before == Len(accepted) - Len(order)
        written(o) == {k \in DOMAIN order :
                         /\ before + k \in DOMAIN accepted
                         /\ ModelRef(n, order[k].article_index) = o}
    IN  [o \in 1..n |-> IF written(o) = {} THEN articles[o]
                        ELSE accepted[before + (CHOOSE k \in written(o) : TRUE)]]

----------------------------------------------------------------------------
(* The preference profile *)

Categories == {"technology", "business", "health", "science",
               "general", "sports", "entertainment"}

\* RecommendationService.category_weights, in tenths; .get(category, 0.5)
category_weights(category) ==
    CASE category \in {"technology", "business", "health", "science"} -> 10
      [] category = "general" -> 8
      [] category = "sports" -> 7
      [] category = "entertainment" -> 6
      [] OTHER -> 5

\* the preferences of a user without counted interactions
DefaultPreferences ==
    [c \in {"technology", "business", "general", "health", "science"} |->
        CASE c = "technology" -> Tenths(8)
          [] c = "business" -> Tenths(7)
          [] c = "general" -> Tenths(6)
          [] OTHER -> Tenths(5)]

\* SupabaseClient.get_user_category_preferences: every interaction of the user,
\* joined with its article; category -> count, for the categories counted
CategoryCounts(user_id, interactions) ==
    LET cats == {a.category : a \in
                   {a \in news_articles :
                      \E i \in DOMAIN interactions :
                         /\ interactions[i].user_id = user_id
                         /\ interactions[i].article_id = a.id}}
        count(c) == Cardinality(
                      {i \in DOMAIN interactions :
                         /\ interactions[i].user_id = user_id
                         /\ \E a \in news_articles :
                               a.id = interactions[i].article_id /\ a.category = c})
    IN  [c \in cats |-> count(c)]

db_get_user_category_preferences(user_id) == CategoryCounts(user_id, user_interactions)

RECURSIVE SumOver(_, _)
SumOver(f, S) == IF S = {} THEN 0
                 ELSE LET x == CHOOSE y \in S : TRUE IN f[x] + SumOver(f, S \ {x})

\* a plausible slip: a failing storage query answered like the except branch
\* of the builder, with no preferences at all
mut_get_user_category_preferences(user_id, db_ok) ==
    IF ~db_ok THEN <<>>
    ELSE LET category_counts == db_get_user_category_preferences(user_id)
         IN  IF DOMAIN category_counts = {} THEN DefaultPreferences
             ELSE LET total_interactions ==
                          SumOver(category_counts, DOMAIN category_counts)
                  IN  [c \in DOMAIN category_counts |->
                         Min((category_counts[c] * 2 * Unit) \div total_interactions,
                             Unit)]

\* a plausible slip: the share of the category, not doubled
mut_NormalizeCounts(category_counts) ==
    IF DOMAIN category_counts = {} THEN DefaultPreferences
    ELSE LET total_interactions == SumOver(category_counts, DOMAIN category_counts)
         IN  [c \in DOMAIN category_counts |->
                Min((category_counts[c] * Unit) \div total_interactions, Unit)]

\* a plausible slip: twice the share, not capped at 1.0
mut_NormalizeCountsUncapped(category_counts) ==
    IF DOMAIN category_counts = {} THEN DefaultPreferences
    ELSE LET total_interactions == SumOver(category_counts, DOMAIN category_counts)
         IN  [c \in DOMAIN category_counts |->
                (category_counts[c] * 2 * Unit) \div total_interactions]

\* the defaults for no counts, and min(count / total_interactions * 2, 1.0)
NormalizeCounts(category_counts) ==
    IF DOMAIN category_counts = {} THEN DefaultPreferences
    ELSE LET total_interactions == SumOver(category_counts, DOMAIN category_counts)
         IN  [c \in DOMAIN category_counts |->
                Min((category_counts[c] * 2 * Unit) \div total_interactions, Unit)]

\* RecommendationService._get_user_category_preferences; db_ok is whether the
\* storage call returned (it answers {} itself when its query fails)
_get_user_category_preferences(user_id, db_ok) ==
    NormalizeCounts(IF db_ok THEN db_get_user_category_preferences(user_id) ELSE <<>>)

\* SupabaseClient.get_user_interactions(user_id, limit=100): select("*"), so a
\* row carries the table's own columns and no joined news_articles
InteractionWindow == 43200      \* days_back = 30, in minutes
InteractionLimit == 100

RECURSIVE SelectSeq2(_, _, _)
SelectSeq2(s, user_id, cutoff) ==
    IF s = <<>> THEN <<>>
    ELSE LET rest == SelectSeq2(Tail(s), user_id, cutoff)
         IN  IF s[1].user_id = user_id /\ s[1].timestamp >= cutoff
             THEN <<s[1]>> \o rest ELSE rest

db_get_user_interactions(user_id, db_ok) ==
    IF ~db_ok THEN <<>>
    ELSE Take(SortDesc(SelectSeq2(user_interactions, user_id, now - InteractionWindow),
                       "timestamp"),
              InteractionLimit)

\* the sources named by the interactions that carry a joined article
SourcesOf(interactions) ==
    {interactions[i].news_articles.source :
        i \in {j \in DOMAIN interactions :
                 /\ "news_articles" \in DOMAIN interactions[j]
                 /\ interactions[j].news_articles.source # ""}}

\* RecommendationService._get_user_source_preferences: source -> count / max
\* count, as <<count, max_count>>
_get_user_source_preferences(interactions) ==
    LET source_counts ==
            [src \in SourcesOf(interactions) |->
                Cardinality({i \in DOMAIN interactions :
                    /\ "news_articles" \in DOMAIN interactions[i]
                    /\ interactions[i].news_articles.source = src})]
        max_count == CHOOSE m \in Range(source_counts) :
                        \A n \in Range(source_counts) : n <= m
    IN  IF DOMAIN source_counts = {} THEN <<>>
        ELSE [src \in DOMAIN source_counts |->
                 (source_counts[src] * Unit) \div max_count]

\* a plausible slip: the base weight of the category left out
mut_calculate_category_boost(article_category, category_preferences) ==
    IF article_category \in DOMAIN category_preferences
    THEN category_preferences[article_category] ELSE Tenths(5)

\* RecommendationService._calculate_category_boost
_calculate_category_boost(article_category, category_preferences) ==
    LET base_weight == category_weights(article_category)
        user_preference == IF article_category \in DOMAIN category_preferences
                           THEN category_preferences[article_category]
                           ELSE Tenths(5)
    IN  (base_weight * user_preference) \div 10

\* RecommendationService._calculate_source_boost
_calculate_source_boost(article_source, source_preferences) ==
    IF article_source \in DOMAIN source_preferences
    THEN source_preferences[article_source] ELSE Tenths(5)

----------------------------------------------------------------------------
(* RecommendationService._apply_personalization *)

\* article.get('recommendation_score', 0.5)
BaseScoreOf(article) ==
    IF "recommendation_score" \in DOMAIN article
    THEN article.recommendation_score ELSE Tenths(5)

\* the weighted sum, in hundredths of Unit
mut_FinalScore(base_score, category_boost, recency_boost, source_boost, diversity_penalty) ==
    base_score * 60 + category_boost * 20 + recency_boost * 10
        + source_boost * 5 + diversity_penalty * 50

\* a plausible slip: the weights of the base score and of the penalty swapped
mut_FinalScoreSwapped(base_score, category_boost, recency_boost, source_boost, diversity_penalty) ==
    base_score * 5 + category_boost * 20 + recency_boost * 10
        + source_boost * 5 + diversity_penalty * 60

FinalScore(base_score, category_boost, recency_boost, source_boost, diversity_penalty) ==
    base_score * 60 + category_boost * 20 + recency_boost * 10
        + source_boost * 5 + diversity_penalty * 5

\* a plausible slip: the score is attached and the breakdown is not
mut_Personalize(article, category_preferences, source_preferences, personalized_recommendations, utcnow) ==
    ("final_score" :>
        FinalScore(BaseScoreOf(article),
                   _calculate_category_boost(Get(article, "category", "general"),
                                             category_preferences),
                   _calculate_recency_boost(Get(article, "published_at", NoStamp),
                                            utcnow),
                   _calculate_source_boost(Get(article, "source", ""),
                                           source_preferences),
                   _calculate_diversity_penalty(article, personalized_recommendations)))
    @@ article

\* the body of the for loop: the article as appended to the accepted list
Personalize(article, category_preferences, source_preferences, personalized_recommendations, utcnow) ==
    LET base_score == BaseScoreOf(article)
        category_boost ==
            _calculate_category_boost(Get(article, "category", "general"),
                                      category_preferences)
        recency_boost ==
            _calculate_recency_boost(Get(article, "published_at", NoStamp), utcnow)
        source_boost ==
            _calculate_source_boost(Get(article, "source", ""), source_preferences)
        diversity_penalty ==
            _calculate_diversity_penalty(article, personalized_recommendations)
        final_score == FinalScore(base_score, category_boost, recency_boost,
                                  source_boost, diversity_penalty)
    IN  ("final_score" :> final_score)
        @@ ("personalization_factors" :>
                [base_score |-> base_score,
                 category_boost |-> category_boost,
                 recency_boost |-> recency_boost,
                 source_boost |-> source_boost,
                 diversity_penalty |-> diversity_penalty])
        @@ article

RECURSIVE mut_PersonalizeLoop(_, _, _, _, _)
\* a plausible slip: the penalty computed against every other candidate, the
\* ones not yet scored included
mut_PersonalizeLoop(ml_recommendations, category_preferences, source_preferences, personalized_recommendations, utcnow) ==
    IF ml_recommendations = <<>> THEN personalized_recommendations
    ELSE mut_PersonalizeLoop(
            Tail(ml_recommendations), category_preferences, source_preferences,
            Append(personalized_recommendations,
                   Personalize(ml_recommendations[1], category_preferences,
                               source_preferences,
                               personalized_recommendations \o Tail(ml_recommendations),
                               utcnow)),
            utcnow)

RECURSIVE mut_PersonalizeLoopSkipping(_, _, _, _, _)
\* a plausible slip: an article without category or timestamp is skipped
mut_PersonalizeLoopSkipping(ml_recommendations, category_preferences, source_preferences, personalized_recommendations, utcnow) ==
    IF ml_recommendations = <<>> THEN personalized_recommendations
    ELSE mut_PersonalizeLoopSkipping(
            Tail(ml_recommendations), category_preferences, source_preferences,
            IF {"category", "published_at"} \subseteq DOMAIN ml_recommendations[1]
            THEN Append(personalized_recommendations,
                        Personalize(ml_recommendations[1], category_preferences,
                                    source_preferences, personalized_recommendations,
                                    utcnow))
            ELSE personalized_recommendations,
            utcnow)

RECURSIVE PersonalizeLoop(_, _, _, _, _)
PersonalizeLoop(ml_recommendations, category_preferences, source_preferences, personalized_recommendations, utcnow) ==
    IF ml_recommendations = <<>> THEN personalized_recommendations
    ELSE PersonalizeLoop(
            Tail(ml_recommendations), category_preferences, source_preferences,
            Append(personalized_recommendations,
                   Personalize(ml_recommendations[1], category_preferences,
                               source_preferences, personalized_recommendations,
                               utcnow)),
            utcnow)

\* a plausible slip: the accepted list kept on the shared service object, so
\* that a call starts from what the call before it accepted
mut_InitialAccepted == IF "scored" \in DOMAIN resp THEN resp.scored ELSE <<>>

\* personalized_recommendations = []: every call starts its own accepted list
InitialAccepted == <<>>

_apply_personalization(user_id, ml_recommendations, interactions, counts_ok) ==
    PersonalizeLoop(ml_recommendations,
                    _get_user_category_preferences(user_id, counts_ok),
                    _get_user_source_preferences(interactions),
                    InitialAccepted, now)

----------------------------------------------------------------------------
(* RecommendationService.get_personalized_recommendations                  *)
(*                                                                          *)
(* The collaborators' behaviour in one call is given by `env`:             *)
(*   model_ok   the model returns (FALSE: it raises)                       *)
(*   scores     the base score predict() gives each article, by position   *)
(*   counts_ok  the category count query returns                           *)
(*   history_ok the interaction query returns                              *)
(*   log_ok     the recommendation log insert succeeds                     *)
(* The value is [out, scored, logged, raised, articles_after]: the list     *)
(* returned, the accepted list before it is sorted, the log row written     *)
(* (<<>> if none), whether the call raised, and the caller's list of        *)
(* articles as the call leaves it.                                          *)

Ids(recs) == [i \in DOMAIN recs |-> recs[i].id]
FinalScores(recs) == [i \in DOMAIN recs |-> recs[i].final_score]

\* a plausible slip: the handler answers [] when the model raises
mut_PersonalizedFallback(articles, top_k) == <<>>

\* except Exception: return articles[:top_k]
PersonalizedFallback(articles, top_k) == Take(articles, top_k)

\* a plausible slip: the insert's failure is not caught in the client
mut_log_recommendations(user_id, article_ids, scores, log_ok) ==
    [written |-> IF log_ok
                 THEN <<[user_id |-> user_id, article_ids |-> article_ids,
                         scores |-> scores]>>
                 ELSE <<>>,
     raised |-> ~log_ok]

\* SupabaseClient.log_recommendations: the row written (<<>> if none); a
\* failing insert is caught and answered with False
db_log_recommendations(user_id, article_ids, scores, log_ok) ==
    [written |-> IF log_ok
                 THEN <<[user_id |-> user_id, article_ids |-> article_ids,
                         scores |-> scores]>>
                 ELSE <<>>,
     raised |-> FALSE]

svc_get_personalized_recommendations(user_id, articles, top_k, env) ==
    IF articles = <<>>
    THEN [out |-> <<>>, scored |-> <<>>, logged |-> <<>>, raised |-> FALSE,
          model_called |-> FALSE, articles_after |-> articles]
    ELSE IF ~env.model_ok
    THEN [out |-> PersonalizedFallback(articles, top_k), scored |-> <<>>,
          logged |-> <<>>, raised |-> FALSE, model_called |-> TRUE,
          articles_after |-> articles]
    ELSE LET interactions == db_get_user_interactions(user_id, env.history_ok)
             ml_recommendations ==
                 ml_get_personalized_recommendations(articles, env.scores, Len(articles))
             personalized_recommendations ==
                 _apply_personalization(user_id, ml_recommendations, interactions,
                                        env.counts_ok)
             final_recommendations ==
                 Take(SortDesc(personalized_recommendations, "final_score"), top_k)
             log == db_log_recommendations(user_id, Ids(final_recommendations),
                                           FinalScores(final_recommendations),
                                           env.log_ok)
             articles_after ==
                 ArticlesAfter(articles, env.scores, personalized_recommendations)
         IN  IF log.raised
             THEN [out |-> PersonalizedFallback(articles, top_k),
                   scored |-> personalized_recommendations, logged |-> <<>>,
                   raised |-> FALSE, model_called |-> TRUE,
                   articles_after |-> articles_after]
             ELSE [out |-> final_recommendations,
                   scored |-> personalized_recommendations,
                   logged |-> log.written,
                   raised |-> FALSE, model_called |-> TRUE,
                   articles_after |-> articles_after]

----------------------------------------------------------------------------
(* Bounds and inputs of the service specification *)

MaxStored == 3          \* rows the table news_articles may hold
MaxCandidates == 3      \* longest list of possibly incomplete candidates ranked
MaxLimit == 2           \* largest `limit` / `top_k` requested

Users == {"u1"}
Limits == 1..MaxLimit
BaseScores == {Tenths(8), Tenths(9)}
Instants == {0, 30, 300, 1500}  \* the moments at which something happens
RequestCategories == {"technology", "health", "sports"}

\* what the collaborators do during one call
Envs(n) ==
    [model_ok : BOOLEAN, scores : [1..n -> BaseScores], counts_ok : BOOLEAN,
     history_ok : BOOLEAN, log_ok : BOOLEAN]

----------------------------------------------------------------------------
(* SupabaseClient.get_recent_news *)

RecentWindow == 1440    \* timedelta(days=1), in minutes

RecentRows(category) ==
    {a \in news_articles :
        /\ category # None => a.category = category
        /\ a.published_at.kind # "none"
        /\ a.published_at.t >= now - RecentWindow}

\* order("published_at", desc=True).limit(limit): rows with equal timestamps
\* come in an order the database chooses
db_get_recent_news(limit, category) ==
    {Take(p, limit) :
        p \in {q \in Perms(RecentRows(category)) :
                 \A i, j \in DOMAIN q :
                    i < j => q[i].published_at.t >= q[j].published_at.t}}

----------------------------------------------------------------------------
(* RecommendationService.get_trending_recommendations *)

\* RecommendationService._get_source_credibility, in tenths
_get_source_credibility(source) ==
    CASE source \in {"Reuters", "BBC", "Associated Press", "Nature"} -> 10
      [] source \in {"Bloomberg", "Science Daily"} -> 9
      [] source \in {"CNN", "TechCrunch", "Wired"} -> 8
      [] OTHER -> 6

TrendingScore(article, utcnow) ==
    BaseScoreOf(article) * 60
        + _calculate_recency_boost(Get(article, "published_at", BadStamp), utcnow) * 30
        + Tenths(_get_source_credibility(Get(article, "source", ""))) * 10

WithTrending(article, utcnow) ==
    ("trending_score" :> TrendingScore(article, utcnow)) @@ article

\* recent_articles is what get_recent_news(limit * 2) returned
svc_get_trending_recommendations(recent_articles, limit, env) ==
    IF recent_articles = <<>>
    THEN [out |-> <<>>, logged |-> <<>>, raised |-> FALSE, model_called |-> FALSE]
    ELSE IF ~env.model_ok
    THEN [out |-> <<>>, logged |-> <<>>, raised |-> FALSE,
          model_called |-> TRUE]                                   \* except: return []
    ELSE LET ml_recommendations ==
                 ml_get_personalized_recommendations(recent_articles, env.scores, limit)
             scored == [i \in DOMAIN ml_recommendations |->
                           WithTrending(ml_recommendations[i], now)]
         IN  [out |-> Take(SortDesc(scored, "trending_score"), limit),
              logged |-> <<>>, raised |-> FALSE, model_called |-> TRUE]

----------------------------------------------------------------------------
(* RecommendationService.get_category_recommendations *)

\* a plausible slip: the category ranker hands its doubled candidate limit on
mut_get_category_recommendations(category_articles, user_id, limit, env) ==
    IF category_articles = <<>>
    THEN [out |-> <<>>, scored |-> <<>>, logged |-> <<>>, raised |-> FALSE,
          model_called |-> FALSE,
          articles_after |-> category_articles]
    ELSE IF user_id # None
    THEN svc_get_personalized_recommendations(user_id, category_articles, limit * 2, env)
    ELSE [out |-> ml_get_personalized_recommendations(category_articles, env.scores,
                                                      limit * 2),
          scored |-> <<>>, logged |-> <<>>, raised |-> FALSE, model_called |-> TRUE,
          articles_after |-> category_articles]

\* category_articles is what get_recent_news(limit * 2, category) returned;
\* user_id is None for an anonymous request
svc_get_category_recommendations(category_articles, user_id, limit, env) ==
    IF category_articles = <<>>
    THEN [out |-> <<>>, scored |-> <<>>, logged |-> <<>>, raised |-> FALSE,
          model_called |-> FALSE,
          articles_after |-> category_articles]
    ELSE IF user_id # None
    THEN svc_get_personalized_recommendations(user_id, category_articles, limit, env)
    ELSE IF ~env.model_ok
    THEN [out |-> <<>>, scored |-> <<>>, logged |-> <<>>, raised |-> FALSE,
          model_called |-> TRUE,
          articles_after |-> category_articles]                    \* except: return []
    ELSE [out |-> ml_get_personalized_recommendations(category_articles, env.scores, limit),
          scored |-> <<>>, logged |-> <<>>, raised |-> FALSE, model_called |-> TRUE,
          articles_after |-> category_articles]

----------------------------------------------------------------------------
(* Ingestion: NewsService.fetch_from_newsapi / fetch_from_gnews /          *)
(* fetch_from_rss / fetch_all_news                                          *)

\* What the feeds can offer, in the order fetch_all_news visits them
\* (category by category: NewsAPI, GNews, RSS).  published is the origin
\* timestamp the feed gives the entry, NoStamp when it gives none.
RawFeed ==
    << [api |-> "newsapi", title |-> <<"A">>, source |-> "Reuters",
        category |-> "technology", published |-> Stamp("Z", 0)],
       [api |-> "rss", title |-> <<"a", " ">>, source |-> "Blog",
        category |-> "technology", published |-> NoStamp],
       [api |-> "gnews", title |-> <<"B">>, source |-> "BBC",
        category |-> "health", published |-> Stamp("Z", 30)],
       [api |-> "rss", title |-> <<"b">>, source |-> "Blog",
        category |-> "health", published |-> Stamp("naive", 0)] >>

\* datetime.utcnow().isoformat()
UtcNowIso == Stamp("naive", now)

\* the processed_article of fetch_from_newsapi and fetch_from_gnews: the id
\* hashes article.get("publishedAt", ""), published_at falls back to utcnow
ProcessApi(entry) ==
    Article(entry.title, entry.source, entry.category,
            IF entry.published = NoStamp THEN BadStamp ELSE entry.published,
            IF entry.published = NoStamp THEN UtcNowIso ELSE entry.published)

\* the processed_article of fetch_from_rss: published_at is utcnow unless the
\* entry has published_parsed, and the id hashes that published_at
ProcessRss(entry) ==
    LET published_at == IF entry.published = NoStamp THEN UtcNowIso
                        ELSE Stamp("naive", entry.published.t)
    IN  Article(entry.title, entry.source, entry.category, published_at, published_at)

Process(entry) == IF entry.api = "rss" THEN ProcessRss(entry) ELSE ProcessApi(entry)

RECURSIVE Gather(_, _)
\* all_articles: the processed entries the feeds offer, in visiting order
Gather(offered, i) ==
    IF i > Len(RawFeed) THEN <<>>
    ELSE (IF i \in offered THEN <<Process(RawFeed[i])>> ELSE <<>>)
         \o Gather(offered, i + 1)

fetch_all_news(offered) == _remove_duplicates(Gather(offered, 1))

\* SupabaseClient.store_news_articles: upsert on the primary key id
Upsert(rows, articles) ==
    {r \in rows : \A i \in DOMAIN articles : articles[i].id # r.id} \cup Range(articles)

----------------------------------------------------------------------------
(* The service specification *)

Init ==
    /\ now = 0
    /\ news_articles = {}
    /\ user_interactions = <<>>
    /\ resp = NoResp
    /\ DedupIdle /\ BoostIdle
    /\ ConcurrentIdle /\ SimpleIdle

\* a plausible slip: a route that answers 404 when it has nothing to return
mut_RouteAnswer(result) ==
    [status |-> IF result.raised THEN 500 ELSE IF result.out = <<>> THEN 404 ELSE 200,
     total |-> Len(result.out)]

\* what a ranking route answers with the service's result: the list and its
\* length as total, or HTTP 500 when the service raised
RouteAnswer(result) ==
    [status |-> IF result.raised THEN 500 ELSE 200, total |-> Len(result.out)]

\* time passes
Tick ==
    /\ resp = NoResp
    /\ \E t \in Instants : t > now /\ now' = t
    /\ UNCHANGED <<news_articles, user_interactions, resp, dd_vars, bo_vars, cc_vars, sb_vars>>

\* routes/news.py fetch_and_store_news
FetchAndStore ==
    /\ resp = NoResp
    /\ \E offered \in SUBSET {i \in DOMAIN RawFeed : RawFeed[i].published.t <= now} :
          LET articles == fetch_all_news(offered) IN
          /\ articles # <<>>
          /\ Cardinality(Upsert(news_articles, articles)) <= MaxStored
          /\ news_articles' = Upsert(news_articles, articles)
    /\ UNCHANGED <<now, user_interactions, resp, dd_vars, bo_vars, cc_vars, sb_vars>>

\* routes/news.py log_article_interaction -> SupabaseClient.log_user_interaction
LogInteraction ==
    /\ resp = NoResp
    /\ Len(user_interactions) < MaxInteractions
    /\ \E u \in Users, a \in news_articles :
          user_interactions' =
              Append(user_interactions,
                     [user_id |-> u, article_id |-> a.id, timestamp |-> now])
    /\ UNCHANGED <<now, news_articles, resp, dd_vars, bo_vars, cc_vars, sb_vars>>

\* routes/recommendations.py get_personalized_recommendations
PersonalizedRequest ==
    /\ resp = NoResp
    /\ \E u \in Users, limit \in Limits, category \in {None} \cup RequestCategories :
       \E articles \in db_get_recent_news(limit * 3, category) :
       \E env \in Envs(Len(articles)) :
          resp' = [op |-> "personalized", user_id |-> u, top_k |-> limit,
                   category |-> category, candidates |-> articles, env |-> env]
                  @@ (LET result == svc_get_personalized_recommendations(u, articles, limit, env)
                      IN  result @@ RouteAnswer(result))
    /\ UNCHANGED <<now, news_articles, user_interactions, dd_vars, bo_vars, cc_vars, sb_vars>>

\* routes/recommendations.py get_trending_recommendations without a category
TrendingRequest ==
    /\ resp = NoResp
    /\ \E limit \in Limits :
       \E articles \in db_get_recent_news(limit * 2, None) :
       \E env \in Envs(Len(articles)) :
          resp' = [op |-> "trending", user_id |-> None, top_k |-> limit,
                   category |-> None, candidates |-> articles, env |-> env]
                  @@ (LET result == svc_get_trending_recommendations(articles, limit, env)
                      IN  result @@ RouteAnswer(result))
    /\ UNCHANGED <<now, news_articles, user_interactions, dd_vars, bo_vars, cc_vars, sb_vars>>

\* routes/recommendations.py get_category_recommendations
CategoryRequest ==
    /\ resp = NoResp
    /\ \E u \in Users \cup {None}, limit \in Limits, category \in RequestCategories :
       \E articles \in db_get_recent_news(limit * 2, category) :
       \E env \in Envs(Len(articles)) :
          resp' = [op |-> "category", user_id |-> u, top_k |-> limit,
                   category |-> category, candidates |-> articles, env |-> env]
                  @@ (LET result == svc_get_category_recommendations(articles, u, limit, env)
                      IN  result @@ RouteAnswer(result))
    /\ UNCHANGED <<now, news_articles, user_interactions, dd_vars, bo_vars, cc_vars, sb_vars>>

\* the route hands the response to the client
Return ==
    /\ resp # NoResp
    /\ resp' = NoResp
    /\ UNCHANGED <<now, news_articles, user_interactions, dd_vars, bo_vars, cc_vars, sb_vars>>

Next ==
    \/ Tick
    \/ FetchAndStore
    \/ PersonalizedRequest
    \/ TrendingRequest
    \/ CategoryRequest
    \/ Return

Spec == Init /\ [][Next]_vars

----------------------------------------------------------------------------
(* Claims about the rankers, under Spec *)

\* the response came from get_personalized_recommendations, called by its own
\* route or by get_category_recommendations for a signed-in user
PersonalizedCall ==
    \/ resp.op = "personalized"
    \/ resp.op = "category" /\ resp.user_id # None

RankingCall == resp.op \in {"personalized", "trending", "category"}

\* the call went through the scoring pass: the model answered for a non-empty
\* candidate list
PassDone == PersonalizedCall /\ resp.candidates # <<>> /\ resp.env.model_ok

\* s is the first min(len(s), k) elements of t, in t's order
IsPrefixOfLen(s, t, k) ==
    /\ Len(s) = (IF Len(t) <= k THEN Len(t) ELSE k)
    /\ \A i \in DOMAIN s : s[i] = t[i]

\* C1: when the model raises in get_personalized_recommendations on a
\* non-empty candidate list, the call raises nothing and returns the first
\* min(len(candidates), top_k) candidates in their input order.
C1_PersonalizedFallbackPrefix ==
    (PersonalizedCall /\ resp.candidates # <<>> /\ ~resp.env.model_ok) =>
        /\ ~resp.raised
        /\ IsPrefixOfLen(resp.out, resp.candidates, resp.top_k)

\* the model raised with more candidates than asked for
C1_Witness ==
    /\ resp.op = "personalized"
    /\ ~resp.env.model_ok
    /\ Len(resp.candidates) = 3
    /\ resp.top_k = 2
    /\ Len(resp.out) = 2

\* C2 as claimed: every ranker answers a failing model with the candidates
\* truncated to top-k in their order, never with an empty list.
C2_EveryRankerFallsBack ==
    (RankingCall /\ resp.candidates # <<>> /\ ~resp.env.model_ok) =>
        /\ IsPrefixOfLen(resp.out, resp.candidates, resp.top_k)
        /\ resp.out # <<>>

\* C3 as claimed: no ranking response holds two articles with the same
\* normalized title or the same identifier.
C3_NoDuplicatesReturned ==
    RankingCall =>
        \A i, j \in DOMAIN resp.out :
            i # j => /\ NormTitle(resp.out[i].title) # NormTitle(resp.out[j].title)
                     /\ resp.out[i].id # resp.out[j].id

\* the preferences the pass of the served request worked with
RespCategoryPreferences ==
    _get_user_category_preferences(resp.user_id, resp.env.counts_ok)
RespSourcePreferences ==
    _get_user_source_preferences(
        db_get_user_interactions(resp.user_id, resp.env.history_ok))

\* the candidate as the storage handed it over, without the model's fields
Bare(a) ==
    [k \in DOMAIN a \ {"recommendation_score", "final_score",
                       "personalization_factors", "trending_score"} |-> a[k]]

\* C5: every article scored by the personalized pass has
\* final_score = 0.6*base + 0.2*categoryBoost + 0.1*recencyBoost
\*               + 0.05*sourceBoost + 0.05*diversityPenalty,
\* the boosts being those of the booster functions on the accepted prefix,
\* base being the score the model gave that article, and 0.5 for an article
\* that comes without a score.
C5_FinalScoreWeightedSum ==
    PassDone =>
        \A k \in DOMAIN resp.scored :
            LET a == resp.scored[k]
                f == a.personalization_factors
                prefix == SubSeq(resp.scored, 1, k - 1)
            IN  /\ \E i \in DOMAIN resp.candidates :
                      /\ resp.candidates[i] = Bare(a)
                      /\ f.base_score = resp.env.scores[i]
                /\ f.category_boost =
                      _calculate_category_boost(a.category, RespCategoryPreferences)
                /\ f.recency_boost = _calculate_recency_boost(a.published_at, now)
                /\ f.source_boost =
                      _calculate_source_boost(a.source, RespSourcePreferences)
                /\ f.diversity_penalty = _calculate_diversity_penalty(a, prefix)
                /\ a.final_score * 100 =
                      6000 * f.base_score + 2000 * f.category_boost
                      + 1000 * f.recency_boost + 500 * f.source_boost
                      + 500 * f.diversity_penalty
                /\ LET g == Personalize(Bare(a), RespCategoryPreferences,
                                        RespSourcePreferences, prefix, now)
                   IN  /\ g.personalization_factors.base_score * 2 = Unit
                       /\ g.final_score - a.final_score =
                             60 * (g.personalization_factors.base_score - f.base_score)

\* a pass over three candidates, the last of them scored below 1.0 diversity
C5_Witness ==
    /\ PassDone
    /\ Len(resp.scored) = 3
    /\ resp.scored[3].personalization_factors.diversity_penalty < Unit
    /\ resp.scored[1].personalization_factors.base_score
          # resp.scored[3].personalization_factors.base_score

FactorNames == {"base_score", "category_boost", "recency_boost",
                "source_boost", "diversity_penalty"}

CarriesBreakdown(a) ==
    /\ "final_score" \in DOMAIN a
    /\ "personalization_factors" \in DOMAIN a
    /\ DOMAIN a.personalization_factors = FactorNames
    /\ a.final_score * 100 =
          6000 * a.personalization_factors.base_score
          + 2000 * a.personalization_factors.category_boost
          + 1000 * a.personalization_factors.recency_boost
          + 500 * a.personalization_factors.source_boost
          + 500 * a.personalization_factors.diversity_penalty

\* C6 as claimed: every ranking call that returns articles returns each with
\* its final_score and the five recorded components that sum to it.
C6_EveryCallCarriesBreakdown ==
    RankingCall => \A i \in DOMAIN resp.out : CarriesBreakdown(resp.out[i])

\* C6 amended: every article returned by a personalized ranking call whose
\* model call succeeded carries its final_score and the five recorded
\* components, and the final_score is their weighted sum.
C6_PersonalizedCarriesBreakdown ==
    PassDone => \A i \in DOMAIN resp.out : CarriesBreakdown(resp.out[i])

\* a category request of a signed-in user returned two scored articles
C6_Witness ==
    /\ PassDone
    /\ resp.op = "category"
    /\ Len(resp.out) = 2
    /\ CarriesBreakdown(resp.out[2])

\* the place of the returned article in the accepted list
ScoredAt(a) == CHOOSE k \in DOMAIN resp.scored : resp.scored[k] = a

\* C7: with the model succeeding, get_personalized_recommendations returns
\* min(len(candidates), top_k) of the scored articles, in non-increasing
\* final_score order, equal scores in the order they were scored, and no
\* article left out scores strictly more than a returned one.
C7_TopKStableDescending ==
    PassDone =>
        /\ Len(resp.out) = Min(Len(resp.candidates), resp.top_k)
        /\ \A i \in DOMAIN resp.out : resp.out[i] \in Range(resp.scored)
        /\ \A i, j \in DOMAIN resp.out :
              i < j =>
                 /\ resp.out[i].final_score >= resp.out[j].final_score
                 /\ resp.out[i].final_score = resp.out[j].final_score =>
                       ScoredAt(resp.out[i]) < ScoredAt(resp.out[j])
        /\ \A k \in DOMAIN resp.scored :
              resp.scored[k] \notin Range(resp.out) =>
                 \A i \in DOMAIN resp.out :
                    resp.scored[k].final_score <= resp.out[i].final_score

\* two returned articles tie, a third was scored and left out
C7_Witness ==
    /\ PassDone
    /\ Len(resp.scored) = 3
    /\ Len(resp.out) = 2
    /\ resp.out[1].final_score = resp.out[2].final_score
    /\ resp.out[1].id # resp.out[2].id

----------------------------------------------------------------------------
(* Claims about the trending and category rankers, ingestion, the log and  *)
(* empty candidate sets, under Spec                                         *)

\* the trending score a candidate gets from its own base score, in hundredths
\* of Unit
CandidateTrendingScore(j) ==
    TrendingScore(WithScore(resp.candidates[j], resp.env.scores[j]), now)

\* C15 as claimed: get_trending_recommendations returns at most `limit`
\* articles, each with trending_score = 0.6*base + 0.3*recencyBoost
\* + 0.1*sourceCredibility, in non-increasing trending_score order, and no
\* candidate left out has a strictly higher trending_score than a returned one.
C15_TrendingTopK ==
    (resp.op = "trending" /\ resp.env.model_ok) =>
        /\ Len(resp.out) <= resp.top_k
        /\ \A i \in DOMAIN resp.out :
              \E j \in DOMAIN resp.candidates :
                 /\ Bare(resp.out[i]) = resp.candidates[j]
                 /\ resp.out[i].trending_score = CandidateTrendingScore(j)
        /\ \A i, j \in DOMAIN resp.out :
              i < j => resp.out[i].trending_score >= resp.out[j].trending_score
        /\ \A j \in DOMAIN resp.candidates :
              (\A i \in DOMAIN resp.out : resp.out[i].id # resp.candidates[j].id) =>
                 \A i \in DOMAIN resp.out :
                    CandidateTrendingScore(j) <= resp.out[i].trending_score

\* C16: get_category_recommendations returns only articles of the requested
\* category; for a signed-in user its result is that of
\* get_personalized_recommendations on the category's candidates with
\* top_k = limit; for an anonymous request it is at most `limit` of those
\* candidates, each with its own base score, in non-increasing base score
\* order, none of the candidates left out scoring higher than a returned one.
C16_CategoryRanker ==
    resp.op = "category" =>
        /\ resp.candidates \in db_get_recent_news(resp.top_k * 2, resp.category)
        /\ \A i \in DOMAIN resp.out : resp.out[i].category = resp.category
        /\ resp.user_id # None =>
              LET p == svc_get_personalized_recommendations(
                           resp.user_id, resp.candidates, resp.top_k, resp.env)
              IN  /\ resp.out = p.out
                  /\ resp.logged = p.logged
                  /\ resp.raised = p.raised
        /\ resp.user_id = None =>
              /\ Len(resp.out) <= resp.top_k
              /\ resp.env.model_ok =>
                    Len(resp.out) = Min(Len(resp.candidates), resp.top_k)
              /\ \A i \in DOMAIN resp.out :
                    \E j \in DOMAIN resp.candidates :
                       /\ Bare(resp.out[i]) = resp.candidates[j]
                       /\ resp.out[i].recommendation_score = resp.env.scores[j]
              /\ \A i, j \in DOMAIN resp.out :
                    i < j => resp.out[i].recommendation_score
                                >= resp.out[j].recommendation_score
              /\ \A j \in DOMAIN resp.candidates :
                    (\A i \in DOMAIN resp.out : resp.out[i].id # resp.candidates[j].id) =>
                       \A i \in DOMAIN resp.out :
                          resp.env.scores[j] <= resp.out[i].recommendation_score

\* a signed-in category request with two candidates of the category and room
\* for one, while the table holds an article of another category
C16_Witness ==
    /\ resp.op = "category"
    /\ resp.user_id # None
    /\ resp.env.model_ok
    /\ Len(resp.candidates) = 2
    /\ Len(resp.out) = 1
    /\ \E a \in news_articles : a.category # resp.category

\* C17 as claimed: however often the feeds are fetched, the table holds one
\* row per logical article (the feed entries differ in title and source).
C17_OneRowPerLogicalArticle ==
    \A r1, r2 \in news_articles :
        (r1.title = r2.title /\ r1.source = r2.source) => r1 = r2

\* C18: when the recommendation log write fails, the personalized call still
\* answers, without an error, the scored articles sorted by final_score and
\* cut to top_k, each with its breakdown; only the log row is missing.
C18_LogFailureKeepsRanking ==
    (PassDone /\ ~resp.env.log_ok) =>
        /\ ~resp.raised
        /\ resp.status = 200
        /\ resp.out = Take(SortDesc(resp.scored, "final_score"), resp.top_k)
        /\ Len(resp.out) = Min(Len(resp.candidates), resp.top_k)
        /\ \A i \in DOMAIN resp.out : CarriesBreakdown(resp.out[i])
        /\ resp.logged = <<>>

\* the log write failed on a call that ranked three candidates into an order
\* that is not theirs
C18_Witness ==
    /\ PassDone
    /\ ~resp.env.log_ok
    /\ Len(resp.candidates) = 3
    /\ Len(resp.out) = 2
    /\ Bare(resp.out[1]) # resp.candidates[1]

\* C19: with no candidates, each ranker returns the empty list without
\* raising, without calling the model and without writing a log row, and the
\* route answers 200 with total 0.
C19_EmptyCandidatesNoError ==
    (RankingCall /\ resp.candidates = <<>>) =>
        /\ resp.out = <<>>
        /\ ~resp.raised
        /\ ~resp.model_called
        /\ resp.logged = <<>>
        /\ resp.status = 200
        /\ resp.total = 0

\* a request for a category no stored article has, the table not being empty
C19_Witness ==
    /\ resp.op \in {"personalized", "category"}
    /\ resp.category = "sports"
    /\ news_articles # {}
    /\ resp.candidates = <<>>
    /\ resp.total = 0

\* C20 as claimed: the i-th article scored by the pass is the i-th candidate
\* supplied to the ranker, with the base score the model gave that candidate.
C20_PassInCandidateOrder ==
    PassDone =>
        /\ Len(resp.scored) = Len(resp.candidates)
        /\ \A i \in DOMAIN resp.scored :
              /\ Bare(resp.scored[i]) = resp.candidates[i]
              /\ resp.scored[i].personalization_factors.base_score = resp.env.scores[i]

----------------------------------------------------------------------------
(* SpecProfile: the profile builder and the personalized ranker for users  *)
(* with and without a history, over a fixed table of recent articles, and  *)
(* a second call with the inputs of the first                               *)

\* NewsRecommendationModel.predict: click_prob * 0.7 + (dwell_score / 10) * 0.3,
\* click_prob being a sigmoid and dwell_score the output of a linear layer
recommendation_score(click_probability, dwell_score) ==
    (click_probability * 7) \div 10 + (dwell_score * 3) \div 100

ClickProbabilities == {Tenths(8)}
DwellScores == {(0 - 50) * Unit, 0, 10 * Unit}
ProfileScores ==
    {recommendation_score(c, d) : c \in ClickProbabilities, d \in DwellScores}

ProfileNow == 31 * 1440         \* the moment of the first call
ProfileLater == ProfileNow + 60 \* a moment after it


ProfileTable ==
    {Article(<<"A">>, "Reuters", "technology",
             Stamp("naive", ProfileNow - 30), Stamp("naive", ProfileNow - 30)),
     Article(<<"B">>, "Blog", "sports",
             Stamp("naive", ProfileNow - 90), Stamp("naive", ProfileNow - 90)),
     Article(<<"b">>, "BBC", "health",
             Stamp("Z", ProfileNow - 300), Stamp("Z", ProfileNow - 300))}

\* the rows log_user_interaction can have written: before the 30 day window
\* of the first call, or inside it
ProfileRows ==
    [user_id : {"u1"}, article_id : {a.id : a \in ProfileTable},
     timestamp : {ProfileNow - InteractionWindow - 60, ProfileNow - 60}]
    \cup [user_id : {"u2"},
          article_id : {a.id : a \in {b \in ProfileTable : b.category = "sports"}},
          timestamp : {ProfileNow - 60}]

\* the table is append-only and each row is stamped with utcnow()
ProfileHistories ==
    {h \in SeqsUpTo(ProfileRows, MaxInteractions) :
        \A i, j \in DOMAIN h : i < j => h[i].timestamp <= h[j].timestamp}

ProfileEnvs(n) ==
    [model_ok : {TRUE}, scores : [1..n -> ProfileScores], counts_ok : BOOLEAN,
     history_ok : BOOLEAN, log_ok : {TRUE}]

ProfileInit ==
    /\ now = ProfileNow
    /\ news_articles = ProfileTable
    /\ user_interactions \in ProfileHistories
    /\ resp = NoResp
    /\ DedupIdle /\ BoostIdle
    /\ ConcurrentIdle /\ SimpleIdle

\* _calculate_category_boost on the profile built for a user
CategoryBoostCall ==
    /\ resp = NoResp
    /\ ~bo_result.done
    /\ \E category \in Categories \cup {"weather"}, counts_ok \in BOOLEAN :
          /\ bo_args' = [fn |-> "category", user_id |-> "u1",
                         category |-> category, counts_ok |-> counts_ok]
          /\ bo_result' =
                [done |-> TRUE,
                 value |-> _calculate_category_boost(
                               category, _get_user_category_preferences("u1", counts_ok))]
    /\ UNCHANGED <<svc_vars, dd_vars, cc_vars, sb_vars>>

\* get_personalized_recommendations(user_id, articles, top_k)
RankForUser ==
    /\ resp = NoResp
    /\ ~bo_result.done
    /\ \E limit \in Limits :
       \E articles \in db_get_recent_news(limit * 3, None) :
       \E env \in ProfileEnvs(Len(articles)) :
          resp' = [op |-> "personalized", user_id |-> "u1", top_k |-> limit,
                   category |-> None, candidates |-> articles, env |-> env,
                   at |-> now]
                  @@ (LET result ==
                              svc_get_personalized_recommendations("u1", articles, limit, env)
                      IN  result @@ RouteAnswer(result))
    /\ UNCHANGED <<now, news_articles, user_interactions, dd_vars, bo_vars, cc_vars, sb_vars>>

\* the clock moves on between two calls
Elapse ==
    /\ resp.op = "personalized"
    /\ now = ProfileNow
    /\ now' = ProfileLater
    /\ UNCHANGED <<news_articles, user_interactions, resp, dd_vars, bo_vars, cc_vars, sb_vars>>

\* get_personalized_recommendations called again for the same user with the
\* same articles and top_k, the collaborators answering as they did
RankAgain ==
    /\ resp.op = "personalized"
    /\ resp' = [op |-> "again", user_id |-> resp.user_id, top_k |-> resp.top_k,
                category |-> None, candidates |-> resp.candidates,
                env |-> resp.env, at |-> now, first |-> resp]
               @@ (LET result ==
                           svc_get_personalized_recommendations(
                               resp.user_id, resp.candidates, resp.top_k, resp.env)
                   IN  result @@ RouteAnswer(result))
    /\ UNCHANGED <<now, news_articles, user_interactions, dd_vars, bo_vars, cc_vars, sb_vars>>

ProfileNext ==
    \/ CategoryBoostCall
    \/ RankForUser
    \/ Elapse
    \/ RankAgain

SpecProfile == ProfileInit /\ [][ProfileNext]_vars

----------------------------------------------------------------------------
(* Claims about the profile and the scores, under SpecProfile *)

CategoryBoostDone == bo_result.done /\ bo_args.fn = "category"

\* the user has no row in user_interactions
NoHistory(user_id) ==
    \A i \in DOMAIN user_interactions : user_interactions[i].user_id # user_id

\* base_weight times default affinity, in hundredths: the cold start boosts
ColdStartBoost(category) ==
    CASE category = "technology" -> 80         \* 1.0 * 0.8
      [] category = "business" -> 70           \* 1.0 * 0.7
      [] category = "general" -> 48            \* 0.8 * 0.6
      [] category = "health" -> 50             \* 1.0 * 0.5
      [] category = "science" -> 50            \* 1.0 * 0.5
      [] category = "sports" -> 35             \* 0.7 * 0.5
      [] category = "entertainment" -> 30      \* 0.6 * 0.5
      [] OTHER -> 25                           \* 0.5 * 0.5

\* the boost the served user's profile gives a category
BoostNow(user_id, category) ==
    _calculate_category_boost(category, _get_user_category_preferences(user_id, TRUE))

\* C11: for a user with no interaction history the category boost of every
\* article is base_weight[category] times the default affinity of the
\* category (technology 0.8), in a single boost and in a ranking pass alike,
\* and technology and business get more than health and science, which get
\* more than sports and entertainment.
C11_ColdStartCategoryBoost ==
    /\ (CategoryBoostDone /\ bo_args.counts_ok /\ NoHistory(bo_args.user_id)) =>
          /\ bo_result.value * 100 = ColdStartBoost(bo_args.category) * Unit
          /\ \A c1 \in {"technology", "business"}, c2 \in {"health", "science"},
                c3 \in {"sports", "entertainment"} :
                /\ BoostNow(bo_args.user_id, c1) > BoostNow(bo_args.user_id, c2)
                /\ BoostNow(bo_args.user_id, c2) > BoostNow(bo_args.user_id, c3)
    /\ (resp.op = "personalized" /\ resp.env.counts_ok /\ NoHistory(resp.user_id)) =>
          \A k \in DOMAIN resp.scored :
             resp.scored[k].personalization_factors.category_boost * 100
                = ColdStartBoost(resp.scored[k].category) * Unit

\* the boost of a sports article for a user without history, other users
\* having one
C11_Witness ==
    /\ CategoryBoostDone
    /\ bo_args.counts_ok
    /\ bo_args.category = "sports"
    /\ NoHistory(bo_args.user_id)
    /\ user_interactions # <<>>
    /\ bo_result.value * 100 = 35 * Unit

C13_FinalScoreNonNegative ==
    /\ FinalScore(Unit, Unit, Unit, Unit, Unit) = 100 * Unit
    /\ resp.op = "personalized" =>
          \A k \in DOMAIN resp.scored : resp.scored[k].final_score >= 0

----------------------------------------------------------------------------
(* The diversity penalty within one pass, under Spec *)

\* the articles scored before the k-th that share its category, and its source
EarlierSameCategory(k) ==
    {j \in 1..(k - 1) : resp.scored[j].category = resp.scored[k].category}
EarlierSameSource(k) ==
    {j \in 1..(k - 1) : resp.scored[j].source = resp.scored[k].source}

\* C21: the diversity penalty recorded for the k-th article scored in a pass
\* is 1.0 for the first and otherwise min(max(0.5, 1 - 0.1*c),
\* max(0.5, 1 - 0.15*s)), c and s counting the articles scored before it
\* that share its category and its source; an article returned after the
\* sort carries the penalty recorded when it was scored.
C21_PenaltyFromCommittedPrefix ==
    PassDone =>
        /\ \A k \in DOMAIN resp.scored :
              resp.scored[k].personalization_factors.diversity_penalty * 100 =
                 (IF k = 1 THEN 100
                  ELSE Min(Max(50, 100 - 10 * Cardinality(EarlierSameCategory(k))),
                           Max(50, 100 - 15 * Cardinality(EarlierSameSource(k)))))
                 * Unit
        /\ \A i \in DOMAIN resp.out : \E k \in DOMAIN resp.scored :
              resp.out[i] = resp.scored[k]

\* the first article scored kept penalty 1.0 although the second shares its
\* category, and the sort put the second in front of it
C21_Witness ==
    /\ PassDone
    /\ Len(resp.scored) = 3
    /\ resp.scored[1].category = resp.scored[2].category
    /\ resp.scored[1].personalization_factors.diversity_penalty = Unit
    /\ resp.scored[2].personalization_factors.diversity_penalty < Unit
    /\ Len(resp.out) = 2
    /\ resp.out[1] = resp.scored[2]

----------------------------------------------------------------------------
(* The interaction window of the profile, under SpecProfile *)

\* the rows of the user no older than 30 days at the moment `at`, the window
\* the interaction query of a call made at `at` reads (never more than
\* InteractionLimit of them here)
WindowOf(user_id, at) == SelectSeq2(user_interactions, user_id, at - InteractionWindow)

\* C22 as claimed: the category affinities used in a ranking call are derived
\* from the interactions of the user inside the 30 day window only, so the
\* category boost of every scored article is the one the history cut down to
\* that window gives, whatever interactions lie outside it.
C22_ProfileFromBoundedWindow ==
    (resp.op = "personalized" /\ resp.env.counts_ok) =>
        \A k \in DOMAIN resp.scored :
           resp.scored[k].personalization_factors.category_boost
              = _calculate_category_boost(
                    resp.scored[k].category,
                    NormalizeCounts(CategoryCounts(resp.user_id,
                                                   WindowOf(resp.user_id, resp.at))))

\* the sources of the articles the user interacted with inside the window of
\* a call made at `at`, each with the number of those interactions
WindowSourceCounts(user_id, at) ==
    LET window == WindowOf(user_id, at)
        sourceOf(i) == (CHOOSE a \in news_articles : a.id = window[i].article_id).source
        joined == {i \in DOMAIN window :
                     \E a \in news_articles : a.id = window[i].article_id}
    IN  [src \in {sourceOf(i) : i \in joined} |->
            Cardinality({i \in joined : sourceOf(i) = src})]

\* count / maximum count for a source of the window, 0.5 for any other
WindowSourceAffinity(user_id, at, source) ==
    LET counts == WindowSourceCounts(user_id, at)
        max_count == CHOOSE m \in Range(counts) : \A n \in Range(counts) : n <= m
    IN  IF source \in DOMAIN counts THEN (counts[source] * Unit) \div max_count
        ELSE Tenths(5)

\* C25 as claimed: in a ranking call the source boost of an article is the
\* number of the user's interactions with its source divided by the largest
\* such number over all sources (1.0 for the most-engaged source, in (0,1]
\* for every seen source), and 0.5 for a source the user never interacted
\* with.
C25_SourceAffinityCountOverMax ==
    (resp.op = "personalized" /\ resp.env.history_ok) =>
        \A k \in DOMAIN resp.scored :
           LET boost == resp.scored[k].personalization_factors.source_boost
           IN  /\ boost = WindowSourceAffinity(resp.user_id, resp.at,
                                               resp.scored[k].source)
               /\ boost > 0 /\ boost <= Unit

----------------------------------------------------------------------------
(* SpecAffinity: the category profile and the category boost of users with *)
(* up to MaxCounted interactions                                            *)

AffinityUsers == {"u1", "u2"}

AffinityRows ==
    [user_id : {"u1"}, article_id : {a.id : a \in ProfileTable},
     timestamp : {ProfileNow - 60}]
    \cup [user_id : {"u2"},
          article_id : {a.id : a \in {b \in ProfileTable : b.category = "sports"}},
          timestamp : {ProfileNow - 60}]

AffinityInit ==
    /\ now = ProfileNow
    /\ news_articles = ProfileTable
    /\ user_interactions \in SeqsUpTo(AffinityRows, MaxCounted)
    /\ resp = NoResp
    /\ DedupIdle /\ BoostIdle
    /\ ConcurrentIdle /\ SimpleIdle

\* _get_user_category_preferences(user_id)
CategoryProfileCall ==
    /\ ~bo_result.done
    /\ \E user_id \in AffinityUsers, counts_ok \in BOOLEAN :
          /\ bo_args' = [fn |-> "profile", user_id |-> user_id, counts_ok |-> counts_ok]
          /\ bo_result' = [done |-> TRUE,
                           value |-> _get_user_category_preferences(user_id, counts_ok)]
    /\ UNCHANGED <<svc_vars, dd_vars, cc_vars, sb_vars>>

AffinityNext ==
    \/ CategoryProfileCall
    \/ CategoryBoostCall

SpecAffinity == AffinityInit /\ [][AffinityNext]_vars

CategoryProfileDone == bo_result.done /\ bo_args.fn = "profile"

\* the interactions of the user with articles of the category, and with any
\* stored article
CountedIn(user_id, category) ==
    Cardinality({i \in DOMAIN user_interactions :
                   /\ user_interactions[i].user_id = user_id
                   /\ \E a \in news_articles :
                         /\ a.id = user_interactions[i].article_id
                         /\ a.category = category})
Counted(user_id) ==
    Cardinality({i \in DOMAIN user_interactions :
                   /\ user_interactions[i].user_id = user_id
                   /\ \E a \in news_articles : a.id = user_interactions[i].article_id})

\* the fixed table of base weights, in tenths
BaseWeight(category) ==
    CASE category = "technology" -> 10
      [] category = "business" -> 10
      [] category = "health" -> 10
      [] category = "science" -> 10
      [] category = "general" -> 8
      [] category = "sports" -> 7
      [] category = "entertainment" -> 6
      [] OTHER -> 5

\* min(2 * count / total, 1.0) for a category of the history, 0.5 for another
AffinityOf(user_id, category) ==
    IF CountedIn(user_id, category) = 0 THEN Tenths(5)
    ELSE (Min(2 * CountedIn(user_id, category), Counted(user_id)) * Unit)
            \div Counted(user_id)

\* C23: for a user with counted interactions the profile holds exactly the
\* categories of the history, each with affinity min(2*count/total, 1.0), a
\* value in [0,1]; the category boost is base_weight[category] times the
\* affinity of the category, with weight 0.5 for an unknown category and
\* affinity 0.5 for a category absent from the profile, and lies in [0,1].
C23_AffinityAndCategoryBoost ==
    /\ (CategoryProfileDone /\ bo_args.counts_ok /\ Counted(bo_args.user_id) > 0) =>
          /\ DOMAIN bo_result.value
                = {c \in Categories : CountedIn(bo_args.user_id, c) > 0}
          /\ \A c \in DOMAIN bo_result.value :
                /\ bo_result.value[c] * Counted(bo_args.user_id)
                      = Min(2 * CountedIn(bo_args.user_id, c), Counted(bo_args.user_id))
                           * Unit
                /\ bo_result.value[c] >= 0 /\ bo_result.value[c] <= Unit
    /\ (CategoryBoostDone /\ bo_args.counts_ok /\ Counted(bo_args.user_id) > 0) =>
          /\ bo_result.value * 10
                = BaseWeight(bo_args.category)
                     * AffinityOf(bo_args.user_id, bo_args.category)
          /\ bo_result.value >= 0 /\ bo_result.value <= Unit

\* the boost of a technology article for a user with one technology
\* interaction in three: affinity 2/3, boost 2/3
C23_Witness ==
    /\ CategoryBoostDone
    /\ bo_args.counts_ok
    /\ bo_args.category = "technology"
    /\ Counted(bo_args.user_id) = 3
    /\ CountedIn(bo_args.user_id, "technology") = 1
    /\ bo_result.value * 3 = 2 * Unit

\* every counted interaction of the user is with an article of the category
OnlyCategory(user_id, category) ==
    Counted(user_id) > 0 /\ CountedIn(user_id, category) = Counted(user_id)

\* C24 as claimed: the normalisation does not saturate immediately; for a
\* user whose counted interactions fall in one category, the affinity of
\* that category is below 1.0 while the history is short (one interaction).
C24_NoImmediateSaturation ==
    (CategoryProfileDone /\ bo_args.counts_ok) =>
        \A c \in DOMAIN bo_result.value :
           (OnlyCategory(bo_args.user_id, c) /\ Counted(bo_args.user_id) = 1) =>
               bo_result.value[c] < Unit

\* C24 amended: the affinity of a category is exactly 1.0 as soon as the
\* category holds at least half of the counted interactions of the user,
\* and 2*count/total, below 1.0, otherwise; for a user whose counted
\* interactions all fall in one category it is 1.0 from the first
\* interaction on, whatever the length of the history.
C24_SaturatesAtHalfShare ==
    (CategoryProfileDone /\ bo_args.counts_ok /\ Counted(bo_args.user_id) > 0) =>
        \A c \in DOMAIN bo_result.value :
           LET count == CountedIn(bo_args.user_id, c)
               total == Counted(bo_args.user_id)
           IN  /\ 2 * count >= total => bo_result.value[c] = Unit
               /\ 2 * count < total =>
                     /\ bo_result.value[c] < Unit
                     /\ bo_result.value[c] * total = 2 * count * Unit
               /\ OnlyCategory(bo_args.user_id, c) => bo_result.value[c] = Unit

\* the profile of a user with a single counted interaction: its category
\* has affinity 1.0
C24_Witness ==
    /\ CategoryProfileDone
    /\ bo_args.counts_ok
    /\ Counted(bo_args.user_id) = 1
    /\ \E c \in DOMAIN bo_result.value :
          OnlyCategory(bo_args.user_id, c) /\ bo_result.value[c] = Unit

----------------------------------------------------------------------------
(* The inputs of a ranking call, under Spec *)

\* a step that is a call of get_personalized_recommendations
PersonalizedStep ==
    /\ resp = NoResp
    /\ resp'.op \in {"personalized", "category"}
    /\ resp'.user_id # None

\* C27: a call of get_personalized_recommendations, on any path (no
\* candidates, the model raising, the pass done, the log failing), leaves
\* the stored articles and the interaction rows as they were, and leaves the
\* caller's candidate records as they were: they carry no score, boost or
\* final score afterwards, the annotation being on the call's own copies.
C27_InputsReadOnly ==
    [][PersonalizedStep =>
          /\ news_articles' = news_articles
          /\ user_interactions' = user_interactions
          /\ resp'.articles_after = resp'.candidates
          /\ \A i \in DOMAIN resp'.articles_after :
                /\ resp'.articles_after[i] \in news_articles'
                /\ DOMAIN resp'.articles_after[i]
                      \cap {"recommendation_score", "final_score",
                            "personalization_factors"} = {}]_vars

\* a call that scored and annotated three candidates and returned two
C27_Witness ==
    /\ PassDone
    /\ Len(resp.candidates) = 3
    /\ Len(resp.out) = 2
    /\ CarriesBreakdown(resp.out[1])
    /\ Bare(resp.out[1]) = resp.articles_after[3]

----------------------------------------------------------------------------
(* SpecPass: the personalized ranker and the scoring pass on candidates     *)
(* that lack optional fields, and on the scenario of three technology and   *)
(* two business articles, for a user without history                        *)

PassNow == ProfileNow
PassStamp == Stamp("naive", PassNow - 30)

\* candidates with and without their optional fields
PassPool ==
    {[id |-> "p1", title |-> <<"A">>, source |-> "Reuters",
      category |-> "technology", published_at |-> PassStamp],
     [id |-> "p2", title |-> <<"B">>, source |-> "Reuters",
      published_at |-> PassStamp],
     [id |-> "p3", title |-> <<"C">>, source |-> "BBC", category |-> "technology"],
     [id |-> "p4", title |-> <<"D">>, source |-> "BBC",
      category |-> "technology", published_at |-> BadStamp],
     [id |-> "p5", title |-> <<"E">>, category |-> None, published_at |-> NoStamp]}

\* lists of distinct candidates
PassLists ==
    {l \in SeqsUpTo(PassPool, MaxCandidates) :
        \A i, j \in DOMAIN l : i # j => l[i] # l[j]}

PassEnvs(n) ==
    [model_ok : BOOLEAN, scores : [1..n -> BaseScores], counts_ok : {TRUE},
     history_ok : {TRUE}, log_ok : {TRUE}]

\* the scenario: T1, T2, T3 in technology and B1, B2 in business, published
\* at the same moment, from five sources or from one
ScenarioTitles == <<"T1", "T2", "T3", "B1", "B2">>

ScenarioArticle(i, one_source) ==
    [id |-> ScenarioTitles[i], title |-> <<ScenarioTitles[i]>>,
     source |-> IF one_source THEN "Reuters"
                ELSE <<"Reuters", "BBC", "CNN", "Wired", "Blog">>[i],
     category |-> IF i <= 3 THEN "technology" ELSE "business",
     published_at |-> PassStamp]

\* base scores 0.9, 0.8, 0.7 and 0.6, 0.5
ScenarioScore(i) == Tenths(10 - i)

PassInit ==
    /\ now = PassNow
    /\ news_articles = {}
    /\ user_interactions = <<>>
    /\ resp = NoResp
    /\ DedupIdle /\ BoostIdle
    /\ ConcurrentIdle /\ SimpleIdle

\* get_personalized_recommendations(user_id, articles, top_k)
RankCandidates ==
    /\ resp = NoResp
    /\ \E articles \in PassLists, top_k \in Limits :
       \E env \in PassEnvs(Len(articles)) :
          resp' = [op |-> "personalized", user_id |-> "u1", top_k |-> top_k,
                   category |-> None, candidates |-> articles, env |-> env]
                  @@ (LET result ==
                              svc_get_personalized_recommendations("u1", articles, top_k, env)
                      IN  result @@ RouteAnswer(result))
    /\ UNCHANGED <<now, news_articles, user_interactions, dd_vars, bo_vars, cc_vars, sb_vars>>

\* _apply_personalization(user_id, ml_recommendations, user_interactions) on
\* recommendations that carry a recommendation_score or none
ApplyPass ==
    /\ resp = NoResp
    /\ \E articles \in PassLists :
       \E scored \in SUBSET DOMAIN articles :
          LET ml_recommendations ==
                  [i \in DOMAIN articles |->
                      IF i \in scored THEN WithScore(articles[i], Tenths(9))
                      ELSE articles[i]]
          IN  resp' = [op |-> "pass", user_id |-> "u1",
                       ml_recommendations |-> ml_recommendations,
                       scored |-> _apply_personalization("u1", ml_recommendations,
                                                         <<>>, TRUE)]
    /\ UNCHANGED <<now, news_articles, user_interactions, dd_vars, bo_vars, cc_vars, sb_vars>>

\* get_personalized_recommendations on the five articles of the scenario, in
\* any order
RankScenario ==
    /\ resp = NoResp
    /\ \E order \in Perms(1..5), one_source \in BOOLEAN, top_k \in {3, 5} :
          LET articles == [i \in 1..5 |-> ScenarioArticle(order[i], one_source)]
              env == [model_ok |-> TRUE,
                      scores |-> [i \in 1..5 |-> ScenarioScore(order[i])],
                      counts_ok |-> TRUE, history_ok |-> TRUE, log_ok |-> TRUE]
          IN  resp' = [op |-> "scenario", user_id |-> "u1", top_k |-> top_k,
                       category |-> None, candidates |-> articles, env |-> env,
                       one_source |-> one_source]
                      @@ (LET result ==
                                  svc_get_personalized_recommendations(
                                      "u1", articles, top_k, env)
                          IN  result @@ RouteAnswer(result))
    /\ UNCHANGED <<now, news_articles, user_interactions, dd_vars, bo_vars, cc_vars, sb_vars>>

PassNext ==
    \/ RankCandidates
    \/ ApplyPass
    \/ RankScenario
    \/ Return

SpecPass == PassInit /\ [][PassNext]_vars

----------------------------------------------------------------------------
(* Claims about incomplete candidates and the scenario, under SpecPass *)

\* the scored article `a` got the default of each optional field it lacks,
\* for a user without history, and its final score is the weighted sum
DefaultsApplied(a) ==
    LET f == a.personalization_factors
    IN  /\ ("published_at" \notin DOMAIN a \/ a.published_at.kind \in {"none", "bad"})
              => f.recency_boost * 2 = Unit
        /\ "category" \notin DOMAIN a
              => f.category_boost * 100 = ColdStartBoost("general") * Unit
        /\ ("category" \in DOMAIN a /\ a.category \notin Categories)
              => f.category_boost * 4 = Unit
        /\ "recommendation_score" \notin DOMAIN a => f.base_score * 2 = Unit
        /\ a.final_score = f.base_score * 60 + f.category_boost * 20
                              + f.recency_boost * 10 + f.source_boost * 5
                              + f.diversity_penalty * 5

\* C26: when the model succeeds, every candidate, one without timestamp,
\* with an unparseable timestamp, without category or without base score
\* included, is scored with the defaults of the fields it lacks (recency
\* 0.5, the category 'general' for a missing category and weight 0.5 for a
\* null one, base score 0.5) and appears exactly once in the accepted list;
\* the call returns min(len(candidates), top_k) of them.
C26_IncompleteCandidatesScored ==
    /\ (resp.op = "personalized" /\ resp.candidates # <<>> /\ resp.env.model_ok) =>
          /\ Len(resp.scored) = Len(resp.candidates)
          /\ \A i \in DOMAIN resp.candidates :
                Cardinality({k \in DOMAIN resp.scored :
                               Bare(resp.scored[k]) = resp.candidates[i]}) = 1
          /\ \A k \in DOMAIN resp.scored : DefaultsApplied(resp.scored[k])
          /\ Len(resp.out) = Min(Len(resp.candidates), resp.top_k)
          /\ \A i \in DOMAIN resp.out : \E k \in DOMAIN resp.scored :
                resp.out[i] = resp.scored[k]
    /\ resp.op = "pass" =>
          /\ Len(resp.scored) = Len(resp.ml_recommendations)
          /\ \A k \in DOMAIN resp.scored :
                /\ Bare(resp.scored[k]) = Bare(resp.ml_recommendations[k])
                /\ DefaultsApplied(resp.scored[k])

\* three candidates ranked, one without category and one with a null
\* timestamp and a null category among them
C26_Witness ==
    /\ resp.op = "personalized"
    /\ resp.env.model_ok
    /\ Len(resp.candidates) = 3
    /\ Len(resp.scored) = 3
    /\ Len(resp.out) = 2
    /\ \E k \in DOMAIN resp.scored : "category" \notin DOMAIN resp.scored[k]
    /\ \E k \in DOMAIN resp.scored :
          /\ "published_at" \in DOMAIN resp.scored[k]
          /\ resp.scored[k].published_at = NoStamp
          /\ resp.scored[k].personalization_factors.recency_boost * 2 = Unit

ScenarioDone == resp.op = "scenario"

\* the place of the article in the returned list, 0 when it is not returned
PlaceOf(id) ==
    IF \E i \in DOMAIN resp.out : resp.out[i].id = id
    THEN CHOOSE i \in DOMAIN resp.out : resp.out[i].id = id
    ELSE 0

\* the accepted article with the id
ScoredOf(id) == resp.scored[CHOOSE k \in DOMAIN resp.scored : resp.scored[k].id = id]

\* C29 as claimed: in the scenario the technology articles are ranked first,
\* and the diversity penalty puts the third technology article below a
\* business article, two technology articles having been accepted before it.
C29_ThirdTechnologySuppressed ==
    (ScenarioDone /\ resp.top_k = 5) =>
        /\ resp.out[1].category = "technology"
        /\ resp.out[2].category = "technology"
        /\ \E b \in {"B1", "B2"} : PlaceOf(b) < PlaceOf("T3")

\* C29 amended: in the scenario the three technology articles are ranked
\* first in base score order and the business articles after them; the
\* third technology article is accepted after two of its category with
\* penalty 0.8 (0.7 when all share a source), which takes 0.01 (0.015) from
\* its final score and leaves it above both business articles.
C29_TechnologyFirstPenaltyKeepsOrder ==
    ScenarioDone =>
        /\ Ids(resp.out) = Take(ScenarioTitles, resp.top_k)
        /\ Ids(resp.scored) = ScenarioTitles
        /\ ScoredOf("T3").personalization_factors.diversity_penalty * 10
              = (IF resp.one_source THEN 7 ELSE 8) * Unit
        /\ ScoredOf("T1").personalization_factors.diversity_penalty = Unit
        /\ \A b \in {"B1", "B2"} : ScoredOf("T3").final_score > ScoredOf(b).final_score
        /\ \A i, j \in DOMAIN resp.out :
              i < j => resp.out[i].final_score > resp.out[j].final_score

\* the scenario ranked in full from five sources, the candidates given with
\* a business article first: the third place is the third technology article
C29_Witness ==
    /\ ScenarioDone
    /\ resp.top_k = 5
    /\ ~resp.one_source
    /\ resp.candidates[1].category = "business"
    /\ resp.out[3].id = "T3"
    /\ resp.out[3].personalization_factors.diversity_penalty * 10 = 8 * Unit
    /\ resp.out[4].id = "B1"

----------------------------------------------------------------------------
(* SpecConcurrent: two calls of get_personalized_recommendations, one per   *)
(* user, on the one RecommendationService instance, interleaved at their    *)
(* awaits: get_user_profile, get_user_interactions, the category count      *)
(* query of _apply_personalization, log_recommendations.  Between two       *)
(* awaits a call runs alone (one event loop).  The clock and the tables do  *)
(* not change while the calls run.                                          *)

ConcUsers == {"u1", "u2"}

\* a plausible slip: the working values kept as attributes of the shared
\* service object
mut_FrameOf(user_id) == "service"

\* where a call keeps user_id, articles, top_k and its local variables: in
\* the frame of its own coroutine
FrameOf(user_id) == user_id

NoFrame ==
    [user_id |-> None, articles |-> <<>>, top_k |-> 0, env |-> <<>>,
     interactions |-> <<>>, ml_recommendations |-> <<>>, scored |-> <<>>,
     final_recommendations |-> <<>>, out |-> <<>>, logged |-> <<>>]

ConcEnvs(n) ==
    [model_ok : BOOLEAN,
     scores : {[i \in 1..n |-> IF i = 1 THEN Tenths(8) ELSE Tenths(9)]},
     counts_ok : {TRUE}, history_ok : {TRUE}, log_ok : {TRUE}]

ConcInit ==
    /\ now = ProfileNow
    /\ news_articles = ProfileTable
    /\ user_interactions \in SeqsUpTo(AffinityRows, MaxInteractions)
    /\ resp = NoResp
    /\ DedupIdle /\ BoostIdle /\ SimpleIdle
    /\ calls = [u \in ConcUsers |-> [pc |-> "idle", overlapped |-> FALSE]]
    /\ frame = [k \in ConcUsers \cup {"service"} |-> NoFrame]

\* another call is between its first await and its return
OtherInFlight(u) ==
    \E v \in ConcUsers \ {u} : calls[v].pc \notin {"idle", "done"}

\* the call moves on to pc; overlapped records that it ran a step while the
\* other call was in flight
MoveTo(u, pc) ==
    calls' = [calls EXCEPT ![u].pc = pc,
                           ![u].overlapped = calls[u].overlapped \/ OtherInFlight(u)]

\* the route calls the service: the call runs up to await get_user_profile,
\* or returns [] for no articles
CallStart(u) ==
    /\ calls[u].pc = "idle"
    /\ \E limit \in Limits :
       \E articles \in db_get_recent_news(limit * 3, None) :
       \E env \in ConcEnvs(Len(articles)) :
          /\ calls' = [calls EXCEPT ![u] =
                          [pc |-> IF articles = <<>> THEN "done" ELSE "profile",
                           overlapped |-> OtherInFlight(u),
                           articles |-> articles, top_k |-> limit, env |-> env]]
          /\ frame' = [frame EXCEPT ![FrameOf(u)] =
                          [NoFrame EXCEPT !.user_id = u, !.articles = articles,
                                          !.top_k = limit, !.env = env]]
    /\ UNCHANGED <<svc_vars, dd_vars, bo_vars, sb_vars>>

\* get_user_profile answered; the call awaits get_user_interactions
ResumeProfile(u) ==
    /\ calls[u].pc = "profile"
    /\ MoveTo(u, "interactions")
    /\ UNCHANGED <<frame, svc_vars, dd_vars, bo_vars, sb_vars>>

\* get_user_interactions answered; the model is called, and the call
\* returns the fallback if it raises, or enters _apply_personalization and
\* awaits the category counts
ResumeInteractions(u) ==
    /\ calls[u].pc = "interactions"
    /\ LET f == frame[FrameOf(u)]
           interactions == db_get_user_interactions(f.user_id, f.env.history_ok)
       IN  IF ~f.env.model_ok
           THEN /\ frame' = [frame EXCEPT ![FrameOf(u)] =
                                [f EXCEPT !.interactions = interactions,
                                          !.out = PersonalizedFallback(f.articles,
                                                                       f.top_k)]]
                /\ MoveTo(u, "done")
           ELSE /\ frame' = [frame EXCEPT ![FrameOf(u)] =
                                [f EXCEPT !.interactions = interactions,
                                          !.ml_recommendations =
                                              ml_get_personalized_recommendations(
                                                  f.articles, f.env.scores,
                                                  Len(f.articles))]]
                /\ MoveTo(u, "counts")
    /\ UNCHANGED <<svc_vars, dd_vars, bo_vars, sb_vars>>

\* the category counts answered; the scoring pass, the sort and the cut run,
\* and the call awaits log_recommendations
ResumeCounts(u) ==
    /\ calls[u].pc = "counts"
    /\ LET f == frame[FrameOf(u)]
           personalized_recommendations ==
               _apply_personalization(f.user_id, f.ml_recommendations, f.interactions,
                                      f.env.counts_ok)
       IN  frame' = [frame EXCEPT ![FrameOf(u)] =
                        [f EXCEPT !.scored = personalized_recommendations,
                                  !.final_recommendations =
                                      Take(SortDesc(personalized_recommendations,
                                                    "final_score"),
                                           f.top_k)]]
    /\ MoveTo(u, "log")
    /\ UNCHANGED <<svc_vars, dd_vars, bo_vars, sb_vars>>

\* log_recommendations answered; the call returns
ResumeLog(u) ==
    /\ calls[u].pc = "log"
    /\ LET f == frame[FrameOf(u)]
           log == db_log_recommendations(f.user_id, Ids(f.final_recommendations),
                                         FinalScores(f.final_recommendations),
                                         f.env.log_ok)
       IN  frame' = [frame EXCEPT ![FrameOf(u)] =
                        IF log.raised
                        THEN [f EXCEPT !.out = PersonalizedFallback(f.articles, f.top_k)]
                        ELSE [f EXCEPT !.out = f.final_recommendations,
                                       !.logged = log.written]]
    /\ MoveTo(u, "done")
    /\ UNCHANGED <<svc_vars, dd_vars, bo_vars, sb_vars>>

ConcNext ==
    \E u \in ConcUsers :
       \/ CallStart(u)
       \/ ResumeProfile(u)
       \/ ResumeInteractions(u)
       \/ ResumeCounts(u)
       \/ ResumeLog(u)

SpecConcurrent == ConcInit /\ [][ConcNext]_vars

\* what the call of user u, as it was made, returns when it runs alone
Alone(u) ==
    svc_get_personalized_recommendations(u, calls[u].articles, calls[u].top_k,
                                         calls[u].env)

\* C28: each of two ranking calls for different users, interleaved at their
\* awaits on the one service instance, returns the list, the scored
\* articles with their breakdowns and the log row it returns when run
\* alone, and keeps them whatever the other call does afterwards.
C28_InterleavedCallsIndependent ==
    \A u \in ConcUsers :
       calls[u].pc = "done" =>
           /\ frame[FrameOf(u)].out = Alone(u).out
           /\ frame[FrameOf(u)].scored = Alone(u).scored
           /\ frame[FrameOf(u)].logged = Alone(u).logged

\* both calls returned, each having run while the other was in flight, with
\* different scores for the same candidates
C28_Witness ==
    /\ \A u \in ConcUsers :
          /\ calls[u].pc = "done"
          /\ calls[u].overlapped
          /\ calls[u].env.model_ok
    /\ calls["u1"].articles = calls["u2"].articles
    /\ frame[FrameOf("u1")].scored # frame[FrameOf("u2")].scored
    /\ Len(frame[FrameOf("u1")].out) = 2

----------------------------------------------------------------------------
(* SpecSimple: simple_backend.py, its cache of live news and the routes     *)
(* that read it.  Scores are exact decimals as above; the clock is in       *)
(* minutes.                                                                 *)

\* the first two of the built-in articles
SampleNews ==
    << [id |-> "tech-1", source |-> "TechNews", category |-> "technology",
        recommendation_score |-> Hundredths(92), click_probability |-> Hundredths(85)],
       [id |-> "business-1", source |-> "Financial Times", category |-> "business",
        recommendation_score |-> Hundredths(78), click_probability |-> Hundredths(72)] >>

\* processed articles a fetch can get: one from NewsAPI, one from GNews
LivePool ==
    {[id |-> "live-1", source |-> "Reuters", category |-> "general",
      recommendation_score |-> Hundredths(80), click_probability |-> Hundredths(70)],
     [id |-> "live-2", source |-> "BBC", category |-> "technology",
      recommendation_score |-> Hundredths(75), click_probability |-> Hundredths(90)]}

\* what a fetch can gather: nothing (no key, an error, no usable article),
\* or some articles in some order
FetchResults == UNION {Perms(S) : S \in SUBSET LivePool}

SimpleInstants == {0, 29, 30, 59}
SimpleCategories == {"technology", "general"}

CacheLifetime == 1800       \* cache_age < 1800 seconds

\* get_cached_news takes the live branch
CacheFresh ==
    /\ CACHE_TIMESTAMP # <<>>
    /\ LIVE_NEWS_CACHE # <<>>
    /\ (now - CACHE_TIMESTAMP[1]) * 60 < CacheLifetime

get_cached_news == IF CacheFresh THEN LIVE_NEWS_CACHE ELSE SAMPLE_NEWS

\* "live" if LIVE_NEWS_CACHE else "sample"
SourceLabel == IF LIVE_NEWS_CACHE # <<>> THEN "live" ELSE "sample"

\* sorted(news, key=lambda x: x.get(key, 0), reverse=True), as the indexes
\* of news in sorted order
SortedIndexes(news, key) ==
    LET keyed == [i \in DOMAIN news |-> [index |-> i, key |-> Get(news[i], key, 0)]]
        sorted == SortDesc(keyed, "key")
    IN  [j \in DOMAIN sorted |-> sorted[j].index]

\* the place of news[i] in the list arranged by `order`
PositionIn(order, i) == CHOOSE j \in DOMAIN order : order[j] = i

\* the list get_cached_news returned is left as `news`
WriteBack(news) ==
    IF CacheFresh
    THEN LIVE_NEWS_CACHE' = news /\ UNCHANGED SAMPLE_NEWS
    ELSE SAMPLE_NEWS' = news /\ UNCHANGED LIVE_NEWS_CACHE

\* what a reading route answers, with the list get_cached_news gave it
SimpleAnswer(op, articles, limit) ==
    [op |-> op, articles |-> Take(articles, limit),
     total |-> Len(Take(articles, limit)), source |-> SourceLabel,
     from_live |-> CacheFresh, live |-> LIVE_NEWS_CACHE, sample |-> SAMPLE_NEWS]

SimpleInit ==
    /\ now = 0
    /\ news_articles = {}
    /\ user_interactions = <<>>
    /\ resp = NoResp
    /\ DedupIdle /\ BoostIdle /\ ConcurrentIdle
    /\ LIVE_NEWS_CACHE = <<>>
    /\ CACHE_TIMESTAMP = <<>>
    /\ SAMPLE_NEWS = SampleNews

SimpleTick ==
    /\ resp = NoResp
    /\ \E t \in SimpleInstants : t > now /\ now' = t
    /\ UNCHANGED <<news_articles, user_interactions, resp, dd_vars, bo_vars, cc_vars,
                   sb_vars>>

\* fetch_live_news, at startup and in POST /api/news/refresh
RefreshNews ==
    /\ resp = NoResp
    /\ \E articles \in FetchResults :
          /\ IF articles # <<>>
             THEN LIVE_NEWS_CACHE' = articles /\ CACHE_TIMESTAMP' = <<now>>
             ELSE UNCHANGED <<LIVE_NEWS_CACHE, CACHE_TIMESTAMP>>
          /\ resp' = [op |-> "refresh", fetched |-> articles,
                      articles_count |-> Len(LIVE_NEWS_CACHE'),
                      cache_before |-> LIVE_NEWS_CACHE,
                      timestamp_before |-> CACHE_TIMESTAMP]
    /\ UNCHANGED <<now, news_articles, user_interactions, SAMPLE_NEWS, dd_vars, bo_vars,
                   cc_vars>>

\* GET /api/news/trending
get_trending_news ==
    /\ resp = NoResp
    /\ \E limit \in Limits :
          LET news == get_cached_news
              order == SortedIndexes(news, "recommendation_score")
          IN  resp' = SimpleAnswer("news_trending",
                                   [j \in DOMAIN order |-> news[order[j]]], limit)
    /\ UNCHANGED <<now, news_articles, user_interactions, dd_vars, bo_vars, cc_vars,
                   sb_vars>>

\* GET /api/news/category/{category}
get_news_by_category ==
    /\ resp = NoResp
    /\ \E limit \in Limits, category \in SimpleCategories :
          LET news == get_cached_news
          IN  resp' = SimpleAnswer("news_category",
                                   SelectSeq(news, LAMBDA a : a.category = category),
                                   limit)
    /\ UNCHANGED <<now, news_articles, user_interactions, dd_vars, bo_vars, cc_vars,
                   sb_vars>>

\* GET /api/recommendations/personalized
simple_get_personalized_recommendations ==
    /\ resp = NoResp
    /\ \E limit \in Limits :
          LET news == get_cached_news
              order == SortedIndexes(news, "recommendation_score")
          IN  resp' = SimpleAnswer("personalized",
                                   [j \in DOMAIN order |-> news[order[j]]], limit)
    /\ UNCHANGED <<now, news_articles, user_interactions, dd_vars, bo_vars, cc_vars,
                   sb_vars>>

FeedMark(article, position) ==
    ("feed_position" :> position) @@ ("feed_type" :> "personalized") @@ article

\* GET /api/recommendations/for-you: a shuffled copy of the list, whose dicts
\* (the list's own) get their feed position
get_for_you_feed ==
    /\ resp = NoResp
    /\ \E limit \in Limits :
       \E order \in Perms(DOMAIN get_cached_news) :
          LET news == [i \in DOMAIN get_cached_news |->
                          FeedMark(get_cached_news[i], PositionIn(order, i))]
          IN  /\ resp' = SimpleAnswer("for_you",
                                      [j \in DOMAIN order |-> news[order[j]]], limit)
              /\ WriteBack(news)
    /\ UNCHANGED <<now, news_articles, user_interactions, CACHE_TIMESTAMP, dd_vars,
                   bo_vars, cc_vars>>

TrendingMark(article, position) ==
    ("trending_position" :> position)
    @@ ("trending_score" :> Get(article, "click_probability", 0)) @@ article

\* GET /api/recommendations/trending: sorted by click probability, the dicts
\* (the list's own) get their trending position
simple_get_trending_recommendations ==
    /\ resp = NoResp
    /\ \E limit \in Limits :
          LET order == SortedIndexes(get_cached_news, "click_probability")
              news == [i \in DOMAIN get_cached_news |->
                          TrendingMark(get_cached_news[i], PositionIn(order, i))]
          IN  /\ resp' = SimpleAnswer("trending",
                                      [j \in DOMAIN order |-> news[order[j]]], limit)
              /\ WriteBack(news)
    /\ UNCHANGED <<now, news_articles, user_interactions, CACHE_TIMESTAMP, dd_vars,
                   bo_vars, cc_vars>>

\* the response is handed to the client
SimpleReturn ==
    /\ resp # NoResp
    /\ resp' = NoResp
    /\ UNCHANGED <<now, news_articles, user_interactions, dd_vars, bo_vars, cc_vars,
                   sb_vars>>

SimpleNext ==
    \/ SimpleTick
    \/ RefreshNews
    \/ get_trending_news
    \/ get_news_by_category
    \/ simple_get_personalized_recommendations
    \/ get_for_you_feed
    \/ simple_get_trending_recommendations
    \/ SimpleReturn

SpecSimple == SimpleInit /\ [][SimpleNext]_vars

SimpleReads == {"news_trending", "news_category", "personalized", "for_you", "trending"}

\* the ids of the articles of a list
IdsIn(news) == {news[i].id : i \in DOMAIN news}

\* C30 as claimed: a news or recommendation response is labelled "live"
\* exactly when its articles were taken from the live cache (non-empty and
\* refreshed less than 30 minutes before), and "sample" exactly when the
\* built-in articles were served; a refresh that fetched nothing left the
\* cache and its timestamp as they were.
C30_SourceLabelMatchesServed ==
    /\ resp.op \in SimpleReads =>
          /\ resp.source = "live" <=> resp.from_live
          /\ resp.source = "sample" <=> ~resp.from_live
          /\ resp.source = "live" => IdsIn(resp.articles) \subseteq IdsIn(resp.live)
          /\ resp.source = "sample" => IdsIn(resp.articles) \subseteq IdsIn(resp.sample)
    /\ (resp.op = "refresh" /\ resp.fetched = <<>>) =>
          /\ LIVE_NEWS_CACHE = resp.cache_before
          /\ CACHE_TIMESTAMP = resp.timestamp_before

====
